---- MODULE Spec2Model ----
(***************************************************************************)
(* Model of the bolson conversion pipeline: main, ProduceFromStream (the   *)
(* supervisor), the converter workers, the publisher, the serializer and   *)
(* the FPGA battery parser's use of the platform mutex.                    *)
(***************************************************************************)
EXTENDS Integers, Sequences, FiniteSets, TLC

\* ------------------------------------------------------------------------
\* Bounds of the model
\* ------------------------------------------------------------------------
\* Largest number of JSONs the source sends before it closes the connection.
MaxJsons == 3
\* Largest in-memory size of one parsed row.
MaxRowSize == 2
\* Largest number of buffers one parser instance is asked to parse.
MaxParses == 2
\* Largest value of a sequence number (uint64_t in the program).
MaxSeq == 9
\* Largest number of parsers, threads and buffers asked of a parser context.
MaxCount == 3
\* Largest number of converter threads whose statistics are aggregated, and
\* the largest value of one counter in them.
MaxStatsThreads == 2
MaxStat == 2
MaxOpaeBytes == 2
MaxMessages == 5
\* Largest number of buffers handed to one call of Parse, and the number of
\* rows the output memory of a parser holds.
MaxBuffers == 2
RawCapacity == 2
\* Largest number of batches handed to one call of Serialize, and the largest
\* number of rows of one of them.
MaxSerBatches == 2
MaxSerRows == 2
\* Largest number of parsers asked of the fpga context when the register
\* offsets are examined, and the largest parser index base_offset is applied
\* to.
MaxRegParsers == 257

\* ------------------------------------------------------------------------
\* Program constants and configuration
\* ------------------------------------------------------------------------
\* opt.num_conversion_drones
NumWorkers == 2
\* opt.seq, the first sequence number the client assigns
seq_start == 7
\* Serializer::max_ipc_size
max_ipc_size == 3
\* Bytes an IPC message takes on top of the rows it carries.
IpcOverhead == 1
\* Resizer: in-memory size up to which a batch is emitted as one piece.
size_hint == 3
\* Number of parser instances sharing the platform.
NumParsers == 2
\* Registers of one parser instance: the default registers, the range
\* registers, the input address registers and the output address registers
\* come before the four custom registers (ctrl, status, rows lo, rows hi).
default_regs == 4
range_regs_per_inst == 2
in_addr_regs_per_inst == 2
out_addr_regs_per_inst == 4
\* Capacities the queues are to be configured with; the program itself
\* constructs both queues without a capacity.
JsonQueueCapacity == 2
IpcQueueCapacity == 2

OK == "OK"

Workers == 1..NumWorkers
Parsers == 1..NumParsers

VARIABLES
  \* main
  mainPc, sub, status, exit_code,
  \* how app.parse of AppOptions::FromArguments ended
  cli_parse,
  \* ProduceFromStream
  supPc, protocol, shutdown, publish_count, illexErr, result,
  \* illex::RawClient
  received,
  \* queues
  raw_json_queue, arrow_ipc_queue,
  \* conversion hive and its drones
  hivePc, wPc, wOut, wStatus, parse_errors,
  \* publish thread
  pubPc, pubStatus, published,
  \* the statistics promises and the reads of their futures
  conv_stats_promise, pub_stats_promise, conv_stats_reads, pub_stats_reads,
  \* BatteryParser instances and the platform mutex
  parserPc, platform_mutex, done, parseStatus, parsesLeft, backend,
  seq_column, inRange, numRows, outBatch, mmio_log,
  \* BatteryParserContext
  num_parsers_, parsers_size, requested, ctxDone, thread_count, buffer_count,
  make_status, addr_written, init_buffers, init_status,
  \* AggrStats
  conv_stats, aggPc, aggIdx, all_conv_stats, avg_bytes_per_msg,
  \* BatteryParser::Parse and the output memory of one parser
  parse_in, parse_out, out_at_call, raw_out, loopPc, loopIdx, loopStatus,
  \* Serializer::Serialize
  ser_in, ser_out, ser_out_at_call, serPc, serStatus,
  \* SerializerMock::Serialize on the same input: *out, the place, the status
  mock_out, mockPc, mockStatus,
  \* register offsets of the fpga BatteryParser
  reg_n, regPc, reg_idx, reg_offs,
  \* the loop of ParseOne that builds the sequence number column
  sl_range, slPc, sl_s, sl_reserved, sl_appended,
  \* OpaeBatteryParser::Parse: the size of *in, *out, *out at the call, the
  \* local result, the rows the kernel returned, the place and the status
  opae_in, opae_out, opae_out_at_call, opae_result, opae_num_rows, opaePc, opaeStatus,
  \* tweetgen StreamServer: opts.num_messages, the loop counter m, the messages
  \* sent on the socket in order, and the place
  tg_num_messages, tg_m, tg_sent, tgPc

mainVars == <<mainPc, sub, status, exit_code, cli_parse>>
supVars == <<supPc, protocol, shutdown, publish_count, illexErr, result>>
queueVars == <<raw_json_queue, arrow_ipc_queue>>
convVars == <<hivePc, wPc, wOut, wStatus, parse_errors>>
pubVars == <<pubPc, pubStatus, published>>
parserVars == <<parserPc, platform_mutex, done, parseStatus, parsesLeft, backend,
                seq_column, inRange, numRows, outBatch, mmio_log>>
ctxVars == <<num_parsers_, parsers_size, requested, ctxDone, thread_count,
             buffer_count, make_status, addr_written, init_buffers, init_status>>
futureVars ==
  <<conv_stats_promise, pub_stats_promise, conv_stats_reads, pub_stats_reads>>
pipeVars ==
  <<mainVars, supVars, received, queueVars, convVars, pubVars, futureVars>>
statsVars == <<conv_stats, aggPc, aggIdx, all_conv_stats, avg_bytes_per_msg>>
loopVars ==
  <<parse_in, parse_out, out_at_call, raw_out, loopPc, loopIdx, loopStatus>>
serVars ==
  <<ser_in, ser_out, ser_out_at_call, serPc, serStatus, mock_out, mockPc,
    mockStatus>>
regVars == <<reg_n, regPc, reg_idx, reg_offs>>
seqVars == <<sl_range, slPc, sl_s, sl_reserved, sl_appended>>
opaeVars ==
  <<opae_in, opae_out, opae_out_at_call, opae_result, opae_num_rows, opaePc,
    opaeStatus>>
tweetVars == <<tg_num_messages, tg_m, tg_sent, tgPc>>
vars ==
  <<pipeVars, parserVars, ctxVars, statsVars, loopVars, serVars, regVars,
    seqVars, opaeVars, tweetVars>>

\* What the actions of one component leave alone: the other components.
otherThanPipe ==
  <<parserVars, ctxVars, statsVars, loopVars, serVars, regVars, seqVars,
    opaeVars, tweetVars>>
otherThanParser ==
  <<pipeVars, ctxVars, statsVars, loopVars, serVars, regVars, seqVars,
    opaeVars, tweetVars>>
otherThanContext ==
  <<pipeVars, parserVars, statsVars, loopVars, serVars, regVars, seqVars,
    opaeVars, tweetVars>>
otherThanStats ==
  <<pipeVars, parserVars, ctxVars, loopVars, serVars, regVars, seqVars,
    opaeVars, tweetVars>>
otherThanSer ==
  <<pipeVars, parserVars, ctxVars, statsVars, loopVars, regVars, seqVars,
    opaeVars, tweetVars>>
otherThanLoop ==
  <<pipeVars, parserVars, ctxVars, statsVars, serVars, regVars, seqVars,
    opaeVars, tweetVars>>
otherThanReg ==
  <<pipeVars, parserVars, ctxVars, statsVars, loopVars, serVars, seqVars,
    opaeVars, tweetVars>>
otherThanSeq ==
  <<pipeVars, parserVars, ctxVars, statsVars, loopVars, serVars, regVars,
    opaeVars, tweetVars>>
otherThanOpae ==
  <<pipeVars, parserVars, ctxVars, statsVars, loopVars, serVars, regVars,
    seqVars, tweetVars>>
otherThanTweet ==
  <<pipeVars, parserVars, ctxVars, statsVars, loopVars, serVars, regVars,
    seqVars, opaeVars>>

\* ------------------------------------------------------------------------
\* Helpers
\* ------------------------------------------------------------------------
RECURSIVE SumSeq(_)
SumSeq(s) == IF s = <<>> THEN 0 ELSE Head(s) + SumSeq(Tail(s))

\* uint64_t arithmetic: MaxSeq stands for the largest uint64_t.
U64(n) == n % (MaxSeq + 1)

RecordSizeOfOffByOne(batch) == batch.seq_range.last - batch.seq_range.first + 2

\* RecordSizeOf: number of JSONs a serialized batch covers, last - first + 1
\* in unsigned arithmetic.
RecordSizeOf(batch) == U64(U64(batch.seq_range.last - batch.seq_range.first) + 1)

\* ------------------------------------------------------------------------
\* Resizer (split at the row midpoint until every piece fits)
\* ------------------------------------------------------------------------
\* Size of the IPC message arrow::ipc::SerializeRecordBatch produces.
SerializeRecordBatch(rows) == IpcOverhead + SumSeq(rows)

RECURSIVE ResizeOverlapping(_, _)
ResizeOverlapping(rows, first) ==
  LET n == Len(rows)
      k == n \div 2
  IN IF SumSeq(rows) <= size_hint
       THEN [ok |-> TRUE,
             pieces |-> <<[rows |-> rows,
                           seq_range |-> [first |-> first, last |-> first + n - 1]]>>]
     ELSE IF n = 1
       THEN IF SerializeRecordBatch(rows) > max_ipc_size
              THEN [ok |-> FALSE, pieces |-> <<>>]
              ELSE [ok |-> TRUE,
                    pieces |-> <<[rows |-> rows,
                                  seq_range |-> [first |-> first, last |-> first]]>>]
     ELSE LET l == ResizeOverlapping(SubSeq(rows, 1, k), first)
              r == ResizeOverlapping(SubSeq(rows, k + 1, n), first + k - 1)
          IN [ok |-> l.ok /\ r.ok,
              pieces |-> IF l.ok /\ r.ok THEN l.pieces \o r.pieces ELSE <<>>]

ResizeInverted(rows, first) ==
  [ok |-> TRUE,
   pieces |-> <<[rows |-> rows,
                 seq_range |-> [first |-> first + Len(rows) - 1, last |-> first]]>>]

RECURSIVE Resize(_, _)
Resize(rows, first) ==
  LET n == Len(rows)
      k == n \div 2
  IN IF SumSeq(rows) <= size_hint
       THEN [ok |-> TRUE,
             pieces |-> <<[rows |-> rows,
                           seq_range |-> [first |-> first, last |-> first + n - 1]]>>]
     ELSE IF n = 1
       THEN IF SerializeRecordBatch(rows) > max_ipc_size
              THEN [ok |-> FALSE, pieces |-> <<>>]
              ELSE [ok |-> TRUE,
                    pieces |-> <<[rows |-> rows,
                                  seq_range |-> [first |-> first, last |-> first]]>>]
     ELSE LET l == Resize(SubSeq(rows, 1, k), first)
              r == Resize(SubSeq(rows, k + 1, n), first + k)
          IN [ok |-> l.ok /\ r.ok,
              pieces |-> IF l.ok /\ r.ok THEN l.pieces \o r.pieces ELSE <<>>]

\* ------------------------------------------------------------------------
\* Serializer::Serialize
\* ------------------------------------------------------------------------
SizeExceededNever(size) == FALSE

\* serialized->size() > max_ipc_size
SizeExceeded(size) == size > max_ipc_size

RECURSIVE SerializeLoopPrepending(_, _, _, _)
SerializeLoopPrepending(in, i, res, failAt) ==
  IF i > Len(in) THEN [status |-> OK, result |-> res]
  ELSE IF i = failAt THEN [status |-> "ArrowError", result |-> res]
  ELSE IF SerializeRecordBatch(in[i].rows) > max_ipc_size
    THEN [status |-> "GenericError", result |-> res]
  ELSE SerializeLoopPrepending(in, i + 1,
                     <<[message |-> SerializeRecordBatch(in[i].rows),
                        seq_range |-> in[i].seq_range]>> \o res,
                     failAt)

\* The loop over the input batches; failAt is the index of the batch for
\* which arrow::ipc::SerializeRecordBatch fails (0: none fails).
RECURSIVE SerializeLoop(_, _, _, _)
SerializeLoop(in, i, res, failAt) ==
  IF i > Len(in) THEN [status |-> OK, result |-> res]
  ELSE IF i = failAt THEN [status |-> "ArrowError", result |-> res]
  ELSE IF SizeExceeded(SerializeRecordBatch(in[i].rows))
    THEN [status |-> "GenericError", result |-> res]
  ELSE SerializeLoop(in, i + 1,
                     Append(res, [message |-> SerializeRecordBatch(in[i].rows),
                                  seq_range |-> in[i].seq_range]),
                     failAt)

SerializeAppending(in, out, failAt) ==
  LET r == SerializeLoop(in, 1, <<>>, failAt)
  IN [status |-> r.status, out |-> IF r.status = OK THEN out \o r.result ELSE out]

\* *out is assigned only when every batch was serialized.
Serialize(in, out, failAt) ==
  LET r == SerializeLoop(in, 1, <<>>, failAt)
  IN [status |-> r.status, out |-> IF r.status = OK THEN r.result ELSE out]

\* ------------------------------------------------------------------------
\* Initial state
\* ------------------------------------------------------------------------
PipeInit ==
  /\ mainPc = "start" /\ sub = "NONE" /\ status = OK /\ exit_code = -1
  /\ cli_parse = "none"
  /\ supPc = "idle" /\ protocol = "raw" /\ shutdown = FALSE
  /\ publish_count = 0 /\ illexErr = FALSE /\ result = OK
  /\ received = 0
  /\ raw_json_queue = <<>> /\ arrow_ipc_queue = <<>>
  /\ hivePc = "none" /\ wPc = [w \in Workers |-> "none"]
  /\ wOut = [w \in Workers |-> <<>>] /\ wStatus = [w \in Workers |-> OK]
  /\ parse_errors = 0
  /\ pubPc = "none" /\ pubStatus = OK /\ published = <<>>
  /\ conv_stats_promise = 0 /\ pub_stats_promise = 0
  /\ conv_stats_reads = 0 /\ pub_stats_reads = 0

\* A ParsedBatch that holds no batch yet (the default-constructed one).
NoBatch ==
  [valid |-> FALSE, columns |-> <<>>, seq |-> <<>>, num_rows |-> 0, meta |-> {},
   seq_range |-> [first |-> 0, last |-> 0]]

ParserState ==
  /\ parserPc = [p \in Parsers |-> "idle"]
  /\ platform_mutex = {}
  /\ done = [p \in Parsers |-> FALSE]
  /\ parseStatus = [p \in Parsers |-> OK]
  /\ parsesLeft = [p \in Parsers |-> MaxParses]
  /\ inRange = [p \in Parsers |-> [first |-> 0, last |-> 0]]
  /\ numRows = [p \in Parsers |-> 0]
  /\ outBatch = [p \in Parsers |-> NoBatch]
  /\ mmio_log = [p \in Parsers |-> <<>>]

ParserInit ==
  /\ ParserState
  /\ backend = "fpga"
  /\ seq_column = FALSE

\* A parser context that has not been made.
ContextState ==
  /\ parsers_size = 0
  /\ ctxDone = {}
  /\ thread_count = 0
  /\ buffer_count = 0
  /\ make_status = OK
  /\ addr_written = {}
  /\ init_buffers = 0
  /\ init_status = OK

ContextInit ==
  /\ ContextState
  /\ num_parsers_ = NumParsers
  /\ requested = [threads |-> NumParsers, buffers |-> NumParsers + 1]

\* A default-constructed ConversionStats: every counter is zero.
ZeroStats ==
  [num_jsons |-> 0, num_ipc |-> 0, convert_time |-> 0, thread_time |-> 0,
   total_ipc_bytes |-> 0]

\* No statistics have been aggregated.
StatsState ==
  /\ aggPc = "idle"
  /\ aggIdx = 0
  /\ all_conv_stats = ZeroStats
  /\ avg_bytes_per_msg = <<>>

StatsInit ==
  /\ StatsState
  /\ conv_stats = <<>>

\* Parse has not been called; the output memory of the parser is as
\* allocated.
LoopState ==
  /\ loopPc = "idle"
  /\ loopIdx = 0
  /\ loopStatus = OK
  /\ out_at_call = <<>>

LoopInit ==
  /\ LoopState
  /\ parse_in = <<>>
  /\ parse_out = <<>>
  /\ raw_out = [i \in 1..RawCapacity |-> 0]

\* Serialize has not been called.
SerState ==
  /\ serPc = "idle"
  /\ serStatus = OK
  /\ ser_out_at_call = <<>>
  /\ mockPc = "idle"
  /\ mockStatus = OK

SerInit ==
  /\ SerState
  /\ ser_in = <<>>
  /\ ser_out = <<>>
  /\ mock_out = <<>>

\* No context was made and no register offset computed.
RegState ==
  /\ regPc = "idle"
  /\ reg_idx = 0
  /\ reg_offs = {}

RegInit ==
  /\ RegState
  /\ reg_n = NumParsers

\* The sequence number column is not being built.
SeqState ==
  /\ slPc = "idle"
  /\ sl_s = 0
  /\ sl_reserved = 0
  /\ sl_appended = 0

SeqInit ==
  /\ SeqState
  /\ sl_range = [first |-> seq_start, last |-> seq_start]

\* A ParsedBuffer: the record batch (<<>> when there is none, <<n>> for a
\* batch of n rows) and the number of bytes parsed.
EmptyParsedBuffer == [batch |-> <<>>, parsed_bytes |-> 0]

\* OpaeBatteryParser::Parse is not running.
OpaeState ==
  /\ opaePc = "idle"
  /\ opaeStatus = OK
  /\ opae_in = 0
  /\ opae_num_rows = 0
  /\ opae_result = EmptyParsedBuffer
  /\ opae_out_at_call = EmptyParsedBuffer

OpaeInit ==
  /\ OpaeState
  /\ opae_out = EmptyParsedBuffer

\* StreamServer has not bound its socket.
TweetState ==
  /\ tgPc = "start"
  /\ tg_m = 0
  /\ tg_sent = <<>>

TweetInit ==
  /\ TweetState
  /\ tg_num_messages = 0

Init ==
  PipeInit /\ ParserInit /\ ContextInit /\ StatsInit /\ LoopInit /\ SerInit
  /\ RegInit /\ SeqInit /\ OpaeInit /\ TweetInit

\* ------------------------------------------------------------------------
\* main
\* ------------------------------------------------------------------------
\* The ways AppOptions::FromArguments returns: app.parse throws CallForHelp
\* (OK, out->sub untouched), it throws another CLI::Error (CLIError, out->sub
\* untouched), or a sub-command was parsed and out->sub is set to it; for
\* the convert benchmark ParseInput may still return an error.
FromArguments(before) ==
  {[parse |-> "help", status |-> OK, sub |-> before],
   [parse |-> "error", status |-> "CLIError", sub |-> before]}
  \cup {[parse |-> "parsed", status |-> OK, sub |-> s] :
          s \in {"FILE", "STREAM", "BENCH"}}
  \cup {[parse |-> "input_error", status |-> "GenericError", sub |-> "BENCH"]}

\* switch (opts.sub): the label control jumps to; a value without a case
\* (and NONE, which breaks at once) runs nothing.
SwitchTarget(s) ==
  IF s = "FILE" THEN "run_file"
  ELSE IF s = "STREAM" THEN "run_stream"
  ELSE "report"

\* AppOptions::FromArguments, then the switch on opts.sub.
MainFromArguments ==
  /\ mainPc = "start"
  /\ \E r \in FromArguments(sub), pr \in {"raw", "zmq"} :
       LET cli == r.status
           s == r.sub
       IN
       /\ status' = cli
       /\ sub' = s
       /\ cli_parse' = r.parse
       /\ protocol' = pr
       /\ IF cli # OK \/ SwitchTarget(s) = "report"
            THEN mainPc' = "report" /\ supPc' = supPc
          ELSE IF s = "FILE"
            THEN mainPc' = "run_file" /\ supPc' = supPc
          ELSE mainPc' = "run_stream" /\ supPc' = "call"
  /\ UNCHANGED <<exit_code, shutdown, publish_count, illexErr, result, received,
                 queueVars, convVars, pubVars, futureVars, otherThanPipe>>

\* case FILE: status = ProduceFromFile(opts.file); there is no break, so
\* control falls through to case STREAM.
MainProduceFromFile ==
  /\ mainPc = "run_file"
  /\ \E r \in {OK, "IOError"} : status' = r
  /\ mainPc' = "run_stream"
  /\ supPc' = "call"
  /\ UNCHANGED <<sub, cli_parse, exit_code, protocol, shutdown, publish_count, illexErr, result,
                 received, queueVars, convVars, pubVars, futureVars, otherThanPipe>>

\* case STREAM: status = ProduceFromStream(opts.stream), when it returns.
MainStreamReturned ==
  /\ mainPc = "run_stream"
  /\ supPc = "returned"
  /\ status' = result
  /\ mainPc' = "report"
  /\ UNCHANGED <<sub, cli_parse, exit_code, supVars, received, queueVars, convVars, pubVars,
                 futureVars, otherThanPipe>>

\* The value main returns: return 0, whatever the status.
MainReturnValue(st) == 0

\* The error is logged when status is not OK; main returns.
MainExit ==
  /\ mainPc = "report"
  /\ exit_code' = MainReturnValue(status)
  /\ mainPc' = "exited"
  /\ UNCHANGED <<sub, cli_parse, status, supVars, received, queueVars, convVars, pubVars,
                 futureVars, otherThanPipe>>

\* ------------------------------------------------------------------------
\* ProduceFromStream (the supervisor)
\* ------------------------------------------------------------------------
PFSCheckProtocolSkipped ==
  /\ supPc = "call"
  /\ result' = result /\ supPc' = "setup"
  /\ UNCHANGED <<mainVars, protocol, shutdown, publish_count, illexErr, received,
                 queueVars, convVars, pubVars, futureVars, otherThanPipe>>

\* The protocol check: ZMQ is not implemented.
PFSCheckProtocol ==
  /\ supPc = "call"
  /\ IF protocol = "zmq"
       THEN result' = "GenericError" /\ supPc' = "returned"
       ELSE result' = result /\ supPc' = "setup"
  /\ UNCHANGED <<mainVars, protocol, shutdown, publish_count, illexErr, received,
                 queueVars, convVars, pubVars, futureVars, otherThanPipe>>

\* SetupClientProducer, then the queues, the promises and the two threads.
PFSSetupAndSpawn ==
  /\ supPc = "setup"
  /\ \E pulsar \in {OK, "PulsarError"} :
       IF pulsar # OK
         THEN /\ result' = pulsar
              /\ supPc' = "returned"
              /\ UNCHANGED <<hivePc, wPc, pubPc>>
         ELSE /\ result' = result
              /\ supPc' = "create"
              /\ hivePc' = "running"
              /\ wPc' = [w \in Workers |-> "idle"]
              /\ pubPc' = "idle"
  /\ UNCHANGED <<mainVars, protocol, shutdown, publish_count, illexErr, received,
                 queueVars, wOut, wStatus, parse_errors, pubStatus, published,
                 futureVars, otherThanPipe>>

ShutdownStoreForgotten == FALSE

\* The value StreamThreads::Shutdown stores in the flag: shutdown.store(true)
ShutdownStore == TRUE

\* SHUTDOWN_ON_ERROR(illex::RawClient::Create(...))
PFSCreateClient ==
  /\ supPc = "create"
  /\ \E st \in {OK, "IllexCreateError"} :
       IF st # OK
         THEN shutdown' = ShutdownStore /\ illexErr' = TRUE /\ supPc' = "join_conv"
         ELSE shutdown' = shutdown /\ illexErr' = illexErr /\ supPc' = "receive"
  /\ UNCHANGED <<mainVars, protocol, publish_count, result, received, queueVars,
                 convVars, pubVars, futureVars, otherThanPipe>>

\* The row sizes of a buffer of k JSONs: every row of at most MaxRowSize, or
\* small rows followed by one row that alone exceeds max_ipc_size.
BufferSizes(k) ==
  [1..k -> 1..MaxRowSize]
    \cup {[i \in 1..k |-> IF i = k THEN max_ipc_size + 1 ELSE 1]}

NextSeqIgnoringStart(rcv) == rcv

\* The sequence number the client gives the next JSON, after rcv JSONs: it
\* starts at opt.seq and goes up by one per JSON.
NextSeq(rcv) == seq_start + rcv

\* client.ReceiveJSONs: one more buffer of k JSONs is sealed and queued. The
\* rows of a malformed buffer are never made, so their sizes are left at 1.
ReceiveBuffer ==
  /\ supPc = "receive"
  /\ \E k \in 1..(MaxJsons - received), bad \in BOOLEAN :
       \E sizes \in IF bad THEN {[i \in 1..k |-> 1]} ELSE BufferSizes(k) :
         /\ raw_json_queue' =
              Append(raw_json_queue,
                     [range |-> [first |-> NextSeq(received),
                                 last |-> NextSeq(received + k) - 1],
                      sizes |-> sizes,
                      malformed |-> bad])
         /\ received' = received + k
  /\ UNCHANGED <<mainVars, supVars, arrow_ipc_queue, convVars, pubVars,
                 futureVars, otherThanPipe>>

\* SHUTDOWN_ON_ERROR(client.ReceiveJSONs(...)): the server closed the
\* connection, or the client failed.
PFSReceiveReturned ==
  /\ supPc = "receive"
  /\ \E st \in {OK, "IllexReceiveError"} :
       IF st # OK
         THEN shutdown' = ShutdownStore /\ illexErr' = TRUE /\ supPc' = "join_conv"
         ELSE shutdown' = shutdown /\ illexErr' = illexErr /\ supPc' = "close"
  /\ UNCHANGED <<mainVars, protocol, publish_count, result, received, queueVars,
                 convVars, pubVars, futureVars, otherThanPipe>>

\* SHUTDOWN_ON_ERROR(client.Close())
PFSCloseClient ==
  /\ supPc = "close"
  /\ \E st \in {OK, "IllexCloseError"} :
       IF st # OK
         THEN shutdown' = ShutdownStore /\ illexErr' = TRUE /\ supPc' = "join_conv"
         ELSE shutdown' = shutdown /\ illexErr' = illexErr /\ supPc' = "wait"
  /\ UNCHANGED <<mainVars, protocol, publish_count, result, received, queueVars,
                 convVars, pubVars, futureVars, otherThanPipe>>

WaitOverAlways(rcv, cnt) == TRUE

WaitOverOncePublished(rcv, cnt) == rcv = cnt /\ cnt > 0

\* The exit condition of while (client.received() != threads.publish_count.load())
WaitOver(rcv, cnt) == rcv = cnt

\* The wait loop ends and threads.Shutdown() stores the flag.
PFSWaitAndShutdown ==
  /\ supPc = "wait"
  /\ WaitOver(received, publish_count)
  /\ shutdown' = ShutdownStore
  /\ supPc' = "join_conv"
  /\ UNCHANGED <<mainVars, protocol, publish_count, illexErr, result, received,
                 queueVars, convVars, pubVars, futureVars, otherThanPipe>>

\* StreamThreads::Shutdown: converter_thread->join()
PFSJoinConverter ==
  /\ supPc = "join_conv"
  /\ hivePc = "exited"
  /\ supPc' = "join_pub"
  /\ UNCHANGED <<mainVars, protocol, shutdown, publish_count, illexErr, result,
                 received, queueVars, convVars, pubVars, futureVars, otherThanPipe>>

PFSJoinPublisherNoWait ==
  /\ supPc = "join_pub"
  /\ IF illexErr
       THEN result' = "IllexError" /\ supPc' = "returned"
       ELSE result' = result /\ supPc' = "collect"
  /\ UNCHANGED <<mainVars, protocol, shutdown, publish_count, illexErr, received,
                 queueVars, convVars, pubVars, futureVars, otherThanPipe>>

\* StreamThreads::Shutdown: publish_thread->join(); SHUTDOWN_ON_ERROR then
\* returns the Illex error.
PFSJoinPublisher ==
  /\ supPc = "join_pub"
  /\ pubPc = "exited"
  /\ IF illexErr
       THEN result' = "IllexError" /\ supPc' = "returned"
       ELSE result' = result /\ supPc' = "collect"
  /\ UNCHANGED <<mainVars, protocol, shutdown, publish_count, illexErr, received,
                 queueVars, convVars, pubVars, futureVars, otherThanPipe>>

SetValueForgotten(promise) == promise

\* promise.set_value(stats): the number of values the promise was given.
SetValue(promise) == promise + 1

\* future.get() returns once the promise was given a value.
Ready(promise) == promise >= 1

\* conv_stats_future.get(); pub_stats_future.get();
\* BOLSON_ROE(pub_stats.status); return Status::OK().
PFSCollectStats ==
  /\ supPc = "collect"
  /\ Ready(conv_stats_promise) /\ Ready(pub_stats_promise)
  /\ result' = pubStatus
  /\ supPc' = "returned"
  /\ conv_stats_reads' = conv_stats_reads + 1
  /\ pub_stats_reads' = pub_stats_reads + 1
  /\ UNCHANGED <<mainVars, protocol, shutdown, publish_count, illexErr, received,
                 queueVars, convVars, pubVars, conv_stats_promise,
                 pub_stats_promise, otherThanPipe>>

\* ------------------------------------------------------------------------
\* Converter workers (the drones of the conversion hive thread)
\* ------------------------------------------------------------------------
\* What a worker makes of one buffer: Parse, Resize, Serialize.
\*   kind "drop":  the parse failed, the buffer is dropped
\*   kind "fatal": resizing or serializing failed, the worker stops
\*   kind "out":   the serialized batches to push on the IPC queue
Convert(buf, failAt) ==
  IF buf.malformed THEN [kind |-> "drop", status |-> OK, out |-> <<>>]
  ELSE LET r == Resize(buf.sizes, buf.range.first)
       IN IF ~r.ok THEN [kind |-> "fatal", status |-> "OversizedRow", out |-> <<>>]
          ELSE LET s == Serialize(r.pieces, <<>>, failAt)
               IN IF s.status # OK
                    THEN [kind |-> "fatal", status |-> s.status, out |-> <<>>]
                    ELSE [kind |-> "out", status |-> OK, out |-> s.out]

\* A worker takes the next buffer from the JSON queue and converts it.
WorkerConvert(w) ==
  /\ wPc[w] = "idle"
  /\ raw_json_queue # <<>>
  /\ raw_json_queue' = Tail(raw_json_queue)
  /\ \E failAt \in 0..Len(Resize(Head(raw_json_queue).sizes, 0).pieces) :
       LET c == Convert(Head(raw_json_queue), failAt)
       IN /\ wOut' = [wOut EXCEPT ![w] = c.out]
          /\ wStatus' = [wStatus EXCEPT ![w] = c.status]
          /\ wPc' = [wPc EXCEPT ![w] = CASE c.kind = "drop" -> "idle"
                                          [] c.kind = "fatal" -> "exited"
                                          [] OTHER -> "push"]
          /\ parse_errors' = IF c.kind = "drop" THEN parse_errors + 1 ELSE parse_errors
  /\ UNCHANGED <<mainVars, supVars, received, arrow_ipc_queue, hivePc, pubVars,
                 futureVars, otherThanPipe>>

\* A worker puts its next serialized batch on the IPC queue. The queues are
\* constructed without a capacity, so the put never waits.
WorkerPush(w) ==
  /\ wPc[w] = "push"
  /\ arrow_ipc_queue' = Append(arrow_ipc_queue, Head(wOut[w]))
  /\ wOut' = [wOut EXCEPT ![w] = Tail(wOut[w])]
  /\ wPc' = [wPc EXCEPT ![w] = IF Tail(wOut[w]) = <<>> THEN "idle" ELSE "push"]
  /\ UNCHANGED <<mainVars, supVars, received, raw_json_queue, hivePc, wStatus,
                 parse_errors, pubVars, futureVars, otherThanPipe>>

\* The timed take found the JSON queue empty and the shutdown flag is set.
WorkerExit(w) ==
  /\ wPc[w] = "idle"
  /\ raw_json_queue = <<>>
  /\ shutdown
  /\ wPc' = [wPc EXCEPT ![w] = "exited"]
  /\ UNCHANGED <<mainVars, supVars, received, queueVars, hivePc, wOut, wStatus,
                 parse_errors, pubVars, futureVars, otherThanPipe>>

\* The hive thread has joined every drone; it fulfils the statistics promise
\* and ends.
HiveExit ==
  /\ hivePc = "running"
  /\ \A w \in Workers : wPc[w] = "exited"
  /\ hivePc' = "exited"
  /\ conv_stats_promise' = SetValue(conv_stats_promise)
  /\ UNCHANGED <<mainVars, supVars, received, queueVars, wPc, wOut, wStatus,
                 parse_errors, pubVars, pub_stats_promise, conv_stats_reads,
                 pub_stats_reads, otherThanPipe>>

\* ------------------------------------------------------------------------
\* Publish thread
\* ------------------------------------------------------------------------
\* The publisher takes a message and sends it; on success it adds the
\* message's JSONs to publish_count, on failure it stores the error and ends.
PublishMessage ==
  /\ pubPc = "idle"
  /\ arrow_ipc_queue # <<>>
  /\ arrow_ipc_queue' = Tail(arrow_ipc_queue)
  /\ \E sent \in BOOLEAN :
       IF sent
         THEN /\ published' = Append(published, Head(arrow_ipc_queue))
              /\ publish_count' = publish_count + RecordSizeOf(Head(arrow_ipc_queue))
              /\ UNCHANGED <<pubPc, pubStatus, pub_stats_promise>>
         ELSE /\ pubStatus' = "PulsarError"
              /\ pubPc' = "exited"
              /\ pub_stats_promise' = SetValue(pub_stats_promise)
              /\ UNCHANGED <<published, publish_count>>
  /\ UNCHANGED <<mainVars, supPc, protocol, shutdown, illexErr, result, received,
                 raw_json_queue, convVars, conv_stats_promise,
                 conv_stats_reads, pub_stats_reads, otherThanPipe>>

\* The timed take found the IPC queue empty and the shutdown flag is set.
PublisherExit ==
  /\ pubPc = "idle"
  /\ arrow_ipc_queue = <<>>
  /\ shutdown
  /\ pubPc' = "exited"
  /\ pub_stats_promise' = SetValue(pub_stats_promise)
  /\ UNCHANGED <<mainVars, supVars, received, queueVars, convVars, pubStatus,
                 published, conv_stats_promise, conv_stats_reads, pub_stats_reads,
                 otherThanPipe>>

\* ------------------------------------------------------------------------
\* The pipeline
\* ------------------------------------------------------------------------
PipeNext ==
  \/ MainFromArguments
  \/ MainProduceFromFile
  \/ MainStreamReturned
  \/ MainExit
  \/ PFSCheckProtocol
  \/ PFSSetupAndSpawn
  \/ PFSCreateClient
  \/ ReceiveBuffer
  \/ PFSReceiveReturned
  \/ PFSCloseClient
  \/ PFSWaitAndShutdown
  \/ PFSJoinConverter
  \/ PFSJoinPublisher
  \/ PFSCollectStats
  \/ \E w \in Workers : WorkerConvert(w)
  \/ \E w \in Workers : WorkerPush(w)
  \/ \E w \in Workers : WorkerExit(w)
  \/ HiveExit
  \/ PublishMessage
  \/ PublisherExit

Next == PipeNext

Spec == Init /\ [][Next]_vars

\* ------------------------------------------------------------------------
\* BatteryParser::ParseOne and the platform mutex (fpga and opae backends)
\* ------------------------------------------------------------------------
\* The seven WriteMMIO calls before the poll loop, in order: ctrl reset,
\* ctrl 0, input last index, input address lo, hi, ctrl start, ctrl 0.
MMIOWrites == {"w1", "w2", "w3", "w4", "w5", "w6", "w7"}

AfterWrite(pc) ==
  CASE pc = "w1" -> "w2" [] pc = "w2" -> "w3" [] pc = "w3" -> "w4"
    [] pc = "w4" -> "w5" [] pc = "w5" -> "w6" [] pc = "w6" -> "w7"
    [] pc = "w7" -> "seq"

MMIOWriteOfStartFirst(pc) ==
  CASE pc = "w1" -> <<"ctrl", "start">>
    [] pc = "w2" -> <<"ctrl", "0">>
    [] pc = "w3" -> <<"input_lastidx", "size">>
    [] pc = "w4" -> <<"input_values_lo", "addr">>
    [] pc = "w5" -> <<"input_values_hi", "addr">>
    [] pc = "w6" -> <<"ctrl", "reset">>
    [] pc = "w7" -> <<"ctrl", "0">>

\* The register and the value of each of the seven writes.
MMIOWriteOf(pc) ==
  CASE pc = "w1" -> <<"ctrl", "reset">>
    [] pc = "w2" -> <<"ctrl", "0">>
    [] pc = "w3" -> <<"input_lastidx", "size">>
    [] pc = "w4" -> <<"input_values_lo", "addr">>
    [] pc = "w5" -> <<"input_values_hi", "addr">>
    [] pc = "w6" -> <<"ctrl", "start">>
    [] pc = "w7" -> <<"ctrl", "0">>

\* mmio_log holds the MMIO accesses of the ParseOne call in progress, in
\* order; successive reads of one register are logged once. The log of a
\* call is dropped when the call returns.
LogRead(log, reg) ==
  IF log # <<>> /\ log[Len(log)] = <<reg, "read">> THEN log
  ELSE Append(log, <<reg, "read">>)

\* The places of ParseOne at which the next step reads or writes MMIO.
MMIOPlaces == MMIOWrites \cup {"poll_read", "read_rows"}

LockAlways(p) == TRUE

\* platform_mutex->lock() returns only when no thread holds the mutex. A
\* thread locking the mutex it already holds (after an error return left it
\* locked) is undefined behaviour: it blocks, or goes on.
LockGranted(p) == platform_mutex = {} \/ platform_mutex = {p}

\* The ranges a buffer handed to a parser can have: one of the first buffers
\* of the stream, of at most MaxJsons JSONs.
BufferRanges ==
  {r \in [first : seq_start..(seq_start + 1), last : seq_start..MaxSeq] :
     r.first <= r.last /\ r.last - r.first + 1 <= MaxJsons}

\* ParseOne is called for the next buffer: platform_mutex->lock().
ParseOneLock(p) ==
  /\ parserPc[p] = "idle"
  /\ parsesLeft[p] > 0
  /\ LockGranted(p)
  /\ platform_mutex' = platform_mutex \cup {p}
  /\ parserPc' = [parserPc EXCEPT ![p] = "w1"]
  /\ done' = [done EXCEPT ![p] = FALSE]
  /\ parseStatus' = [parseStatus EXCEPT ![p] = OK]
  /\ \E r \in BufferRanges : inRange' = [inRange EXCEPT ![p] = r]
  /\ numRows' = [numRows EXCEPT ![p] = 0]
  /\ outBatch' = [outBatch EXCEPT ![p] = NoBatch]
  /\ mmio_log' = [mmio_log EXCEPT ![p] = <<>>]
  /\ UNCHANGED <<otherThanParser, parsesLeft, backend, seq_column>>

\* BOLSON_ROE(WriteMMIO(...)): on an error ParseOne returns at once.
ParseOneWriteMMIO(p) ==
  /\ parserPc[p] \in MMIOWrites
  /\ \E ok \in BOOLEAN :
       IF ok
         THEN /\ parserPc' = [parserPc EXCEPT ![p] = AfterWrite(parserPc[p])]
              /\ mmio_log' = [mmio_log EXCEPT
                                ![p] = Append(@, MMIOWriteOf(parserPc[p]))]
              /\ UNCHANGED <<parseStatus, parsesLeft>>
         ELSE /\ parserPc' = [parserPc EXCEPT ![p] = "idle"]
              /\ parseStatus' = [parseStatus EXCEPT ![p] = "FletcherError"]
              /\ parsesLeft' = [parsesLeft EXCEPT ![p] = parsesLeft[p] - 1]
              /\ mmio_log' = [mmio_log EXCEPT ![p] = <<>>]
  /\ UNCHANGED <<otherThanParser, platform_mutex, done, backend, seq_column, inRange,
                 numRows, outBatch>>

\* The fpga parser prepends the sequence number column when seq_column is
\* set; the opae parser has no such option.
PrependsSeqColumn == backend = "fpga" /\ seq_column

\* for (uint64_t s = first; s <= last; s++) builder.UnsafeAppend(s);
\* with last the largest uint64_t the condition s <= last never fails.
SeqLoopEnds(range) == range.last < MaxSeq

\* The array the loop builds: first, first+1, ..., last.
BuildSeq(range) == [i \in 1..(range.last - range.first + 1) |-> range.first + i - 1]

\* While the FPGA is busy the sequence number column is built (fpga backend
\* with seq_column); ARROW_ROE returns on an error of Reserve or Finish. A
\* loop that does not end writes past the reserved space for ever: ParseOne
\* never returns.
ParseOnePrepareSeq(p) ==
  /\ parserPc[p] = "seq"
  /\ IF ~PrependsSeqColumn
       THEN /\ parserPc' = [parserPc EXCEPT ![p] = "poll_read"]
            /\ UNCHANGED <<parseStatus, parsesLeft, mmio_log>>
     ELSE IF ~SeqLoopEnds(inRange[p])
       THEN /\ parserPc' = [parserPc EXCEPT ![p] = "overrun"]
            /\ UNCHANGED <<parseStatus, parsesLeft, mmio_log>>
     ELSE \E ok \in BOOLEAN :
       IF ok
         THEN /\ parserPc' = [parserPc EXCEPT ![p] = "poll_read"]
              /\ UNCHANGED <<parseStatus, parsesLeft, mmio_log>>
         ELSE /\ parserPc' = [parserPc EXCEPT ![p] = "idle"]
              /\ parseStatus' = [parseStatus EXCEPT ![p] = "ArrowError"]
              /\ parsesLeft' = [parsesLeft EXCEPT ![p] = parsesLeft[p] - 1]
              /\ mmio_log' = [mmio_log EXCEPT ![p] = <<>>]
  /\ UNCHANGED <<otherThanParser, platform_mutex, done, backend, seq_column, inRange,
                 numRows, outBatch>>

\* do { ReadMMIO(status); done = (status & stat_done) == stat_done;
ParseOnePollRead(p) ==
  /\ parserPc[p] = "poll_read"
  /\ \E d \in BOOLEAN : done' = [done EXCEPT ![p] = d]
  /\ parserPc' = [parserPc EXCEPT ![p] = "poll_unlock"]
  /\ mmio_log' = [mmio_log EXCEPT ![p] = LogRead(@, "status")]
  /\ UNCHANGED <<otherThanParser, platform_mutex, parseStatus, parsesLeft, backend,
                 seq_column, inRange, numRows, outBatch>>

\* platform_mutex->unlock(); sleep_for(...)
ParseOnePollUnlock(p) ==
  /\ parserPc[p] = "poll_unlock"
  /\ platform_mutex' = platform_mutex \ {p}
  /\ parserPc' = [parserPc EXCEPT ![p] = "poll_lock"]
  /\ UNCHANGED <<otherThanParser, mmio_log, done, parseStatus, parsesLeft, backend, seq_column,
                 inRange, numRows, outBatch>>

\* platform_mutex->lock(); } while (!done);
ParseOnePollLock(p) ==
  /\ parserPc[p] = "poll_lock"
  /\ LockGranted(p)
  /\ platform_mutex' = platform_mutex \cup {p}
  /\ parserPc' = [parserPc EXCEPT ![p] = IF done[p] THEN "read_rows" ELSE "poll_read"]
  /\ UNCHANGED <<otherThanParser, mmio_log, done, parseStatus, parsesLeft, backend, seq_column,
                 inRange, numRows, outBatch>>

\* ReadMMIO(rows lo); ReadMMIO(rows hi); platform_mutex->unlock(); the
\* hardware reports the number of rows it wrote.
ParseOneReadRowsUnlock(p) ==
  /\ parserPc[p] = "read_rows"
  /\ platform_mutex' = platform_mutex \ {p}
  /\ \E n \in 0..MaxJsons : numRows' = [numRows EXCEPT ![p] = n]
  /\ parserPc' = [parserPc EXCEPT ![p] = "wrap"]
  /\ mmio_log' = [mmio_log EXCEPT ![p] = LogRead(@, "rows")]
  /\ UNCHANGED <<otherThanParser, done, parseStatus, parsesLeft, backend, seq_column,
                 inRange, outBatch>>

\* The decimal digits of n, most significant first (std::to_string).
RECURSIVE DecString(_)
DecString(n) == IF n < 10 THEN <<n>> ELSE DecString(n \div 10) \o <<n % 10>>

\* AddSeqAsSchemaMeta: the schema metadata entries for the range.
AddSeqAsSchemaMeta(range) ==
  {<<"bolson_seq_first", DecString(range.first)>>,
   <<"bolson_seq_last", DecString(range.last)>>}

AddColumnNeverFails(seq, num_rows) == FALSE

\* RecordBatch::AddColumn refuses a column whose length is not the batch's
\* number of rows.
AddColumnFails(seq, num_rows) == Len(seq) # num_rows

\* The batch ParseOne assigns to *out, from the batch WrapOutput made of
\* num_rows rows.
FinalBatch(range, num_rows) ==
  IF PrependsSeqColumn
    THEN [valid |-> TRUE, columns |-> <<"bolson_seq", "voltage">>,
          seq |-> BuildSeq(range), num_rows |-> num_rows, meta |-> {},
          seq_range |-> range]
  ELSE IF backend = "fpga"
    THEN [valid |-> TRUE, columns |-> <<"voltage">>, seq |-> <<>>,
          num_rows |-> num_rows, meta |-> AddSeqAsSchemaMeta(range),
          seq_range |-> range]
  ELSE [valid |-> TRUE, columns |-> <<"voltage">>, seq |-> <<>>,
        num_rows |-> num_rows, meta |-> {}, seq_range |-> range]

\* WrapOutput, then the final batch (AddColumn or AddSeqAsSchemaMeta in the
\* fpga parser, the wrapped batch itself in the opae parser); ParseOne returns.
ParseOneWrapAndReturn(p) ==
  /\ parserPc[p] = "wrap"
  /\ \E wrapped \in BOOLEAN :
       IF ~wrapped \/ (PrependsSeqColumn /\ AddColumnFails(BuildSeq(inRange[p]), numRows[p]))
         THEN /\ parseStatus' = [parseStatus EXCEPT ![p] = "ArrowError"]
              /\ outBatch' = outBatch
         ELSE /\ parseStatus' = [parseStatus EXCEPT ![p] = OK]
              /\ outBatch' = [outBatch EXCEPT ![p] = FinalBatch(inRange[p], numRows[p])]
  /\ parserPc' = [parserPc EXCEPT ![p] = "idle"]
  /\ mmio_log' = [mmio_log EXCEPT ![p] = <<>>]
  /\ parsesLeft' = [parsesLeft EXCEPT ![p] = parsesLeft[p] - 1]
  /\ UNCHANGED <<otherThanParser, platform_mutex, done, backend, seq_column, inRange,
                 numRows>>

ParserNext ==
  \/ \E p \in Parsers : ParseOneLock(p)
  \/ \E p \in Parsers : ParseOneWriteMMIO(p)
  \/ \E p \in Parsers : ParseOnePrepareSeq(p)
  \/ \E p \in Parsers : ParseOnePollRead(p)
  \/ \E p \in Parsers : ParseOnePollUnlock(p)
  \/ \E p \in Parsers : ParseOnePollLock(p)
  \/ \E p \in Parsers : ParseOneReadRowsUnlock(p)
  \/ \E p \in Parsers : ParseOneWrapAndReturn(p)

ParseSpecInit ==
  /\ PipeInit
  /\ TweetInit
  /\ OpaeInit
  /\ SeqInit
  /\ RegInit
  /\ SerInit
  /\ ContextInit
  /\ StatsInit
  /\ LoopInit
  /\ ParserState
  /\ backend \in {"fpga", "opae"}
  /\ seq_column \in BOOLEAN

ParseSpec == ParseSpecInit /\ [][ParserNext]_vars

\* ------------------------------------------------------------------------
\* BatteryParserContext (fpga and opae backends)
\* ------------------------------------------------------------------------
\* fpga BatteryParser::Init of the parser with index idx: it refuses an index
\* of 256 or more, and returns the error of the first of its four writes of
\* an output address register that fails.
BatteryParserInit(idx, writesOk) ==
  IF idx >= 256 THEN "FletcherError"
  ELSE IF ~writesOk THEN "FletcherError"
  ELSE OK

\* fpga PrepareParsers: parser->Init(); parsers_.push_back(parser); for every
\* parser, then return Status::OK(). The status of Init is dropped.
PrepareParsers(inits) == OK

\* BatteryParserContext::Make: the fpga context prepares its parsers in Make,
\* the opae context only in Init. Either returns the error of a step of the
\* platform or the fletcher stack that fails. written are the parsers for
\* which every write of Init succeeds.
ContextMake ==
  /\ ctxDone = {}
  /\ ctxDone' = {"make"}
  /\ \E stackOk \in BOOLEAN, written \in SUBSET (1..num_parsers_) :
       IF num_parsers_ > 256 \/ ~stackOk
         THEN /\ make_status' = "FletcherError"
              /\ parsers_size' = 0
              /\ addr_written' = {}
       ELSE IF backend = "fpga"
         THEN LET inits == [p \in 1..num_parsers_ |->
                              BatteryParserInit(p - 1, p \in written)]
              IN /\ make_status' = PrepareParsers(inits)
                 /\ parsers_size' = num_parsers_
                 /\ addr_written' = {p \in 1..num_parsers_ : inits[p] = OK}
       ELSE /\ make_status' = OK
            /\ parsers_size' = 0
            /\ addr_written' = {}
  /\ UNCHANGED <<otherThanContext, num_parsers_, requested, thread_count,
                 buffer_count, init_buffers, init_status>>

\* if (parsers_.size() != buffers.size()) return Status(Error::OpaeError, ...)
InitRefuses(buffers) == parsers_size # buffers

\* opae BatteryParserContext::Init(buffers): it refuses a number of buffers
\* other than parsers_.size(), returns the error of a step of the fletcher
\* stack that fails, else PrepareParsers adds num_parsers_ parsers.
ContextOpaeInit ==
  /\ backend = "opae"
  /\ "make" \in ctxDone
  /\ make_status = OK
  /\ "init" \notin ctxDone
  /\ ctxDone' = ctxDone \cup {"init"}
  /\ \E buffers \in {0, buffer_count, requested.buffers}, stackOk \in BOOLEAN :
       /\ init_buffers' = buffers
       /\ IF InitRefuses(buffers)
            THEN init_status' = "OpaeError" /\ parsers_size' = parsers_size
          ELSE IF ~stackOk
            THEN init_status' = "FletcherError" /\ parsers_size' = parsers_size
          ELSE init_status' = OK /\ parsers_size' = parsers_size + num_parsers_
  /\ UNCHANGED <<otherThanContext, num_parsers_, requested, thread_count,
                 buffer_count, make_status, addr_written>>

\* CheckThreadCount(num_threads): return parsers_.size();
CheckThreadCount(num_threads) == parsers_size

\* CheckBufferCount(num_buffers): return parsers_.size();
CheckBufferCount(num_buffers) == parsers_size

\* The context is asked how many threads to run with.
ContextCheckThreadCount ==
  /\ "make" \in ctxDone
  /\ make_status = OK
  /\ "threads" \notin ctxDone
  /\ ctxDone' = ctxDone \cup {"threads"}
  /\ thread_count' = CheckThreadCount(requested.threads)
  /\ UNCHANGED <<otherThanContext, num_parsers_, parsers_size, requested,
                 buffer_count, make_status, addr_written, init_buffers, init_status>>

\* The context is asked how many buffers to run with.
ContextCheckBufferCount ==
  /\ "make" \in ctxDone
  /\ make_status = OK
  /\ "buffers" \notin ctxDone
  /\ ctxDone' = ctxDone \cup {"buffers"}
  /\ buffer_count' = CheckBufferCount(requested.buffers)
  /\ UNCHANGED <<otherThanContext, num_parsers_, parsers_size, requested,
                 thread_count, make_status, addr_written, init_buffers, init_status>>

ContextNext ==
  \/ ContextMake
  \/ ContextOpaeInit
  \/ ContextCheckThreadCount
  \/ ContextCheckBufferCount

ContextSpecInit ==
  /\ PipeInit
  /\ TweetInit
  /\ OpaeInit
  /\ SeqInit
  /\ RegInit
  /\ SerInit
  /\ StatsInit
  /\ LoopInit
  /\ ParserState
  /\ seq_column = FALSE
  /\ backend \in {"fpga", "opae"}
  /\ ContextState
  /\ num_parsers_ \in 1..MaxCount
  /\ requested \in [threads : 1..MaxCount, buffers : 1..(MaxCount + 1)]

ContextSpec == ContextSpecInit /\ [][ContextNext]_vars

\* ------------------------------------------------------------------------
\* AggrStats
\* ------------------------------------------------------------------------
AddStatsWithoutIpc(a, t) ==
  [num_jsons |-> a.num_jsons + t.num_jsons,
   num_ipc |-> a.num_ipc,
   convert_time |-> a.convert_time + t.convert_time,
   thread_time |-> a.thread_time + t.thread_time,
   total_ipc_bytes |-> a.total_ipc_bytes + t.total_ipc_bytes]

\* The body of the loop: all_conv_stats.<field> += t.<field> for each of the
\* five fields. The counters count events of one run and stay far below the
\* width of size_t.
AddStats(a, t) ==
  [num_jsons |-> a.num_jsons + t.num_jsons,
   num_ipc |-> a.num_ipc + t.num_ipc,
   convert_time |-> a.convert_time + t.convert_time,
   thread_time |-> a.thread_time + t.thread_time,
   total_ipc_bytes |-> a.total_ipc_bytes + t.total_ipc_bytes]

\* AggrStats is called: ConversionStats all_conv_stats;
AggrStatsBegin ==
  /\ aggPc = "idle"
  /\ aggPc' = "loop"
  /\ aggIdx' = 1
  /\ all_conv_stats' = ZeroStats
  /\ UNCHANGED <<otherThanStats, conv_stats, avg_bytes_per_msg>>

\* for (const auto &t : conv_stats) { ... }: one iteration.
AggrStatsAdd ==
  /\ aggPc = "loop"
  /\ aggIdx <= Len(conv_stats)
  /\ all_conv_stats' = AddStats(all_conv_stats, conv_stats[aggIdx])
  /\ aggIdx' = aggIdx + 1
  /\ UNCHANGED <<otherThanStats, conv_stats, aggPc, avg_bytes_per_msg>>

\* return all_conv_stats;
AggrStatsReturn ==
  /\ aggPc = "loop"
  /\ aggIdx > Len(conv_stats)
  /\ aggPc' = "returned"
  /\ UNCHANGED <<otherThanStats, conv_stats, aggIdx, all_conv_stats,
                 avg_bytes_per_msg>>

RECURSIVE GCD(_, _)
GCD(a, b) == IF b = 0 THEN a ELSE GCD(b, a % b)

\* static_cast<double>(n) / d: the quotient as a fraction in lowest terms;
\* a division by zero gives inf, written <<1, 0>>, or nan for 0 / 0,
\* written <<0, 0>>.
Quotient(n, d) ==
  IF d = 0 THEN (IF n = 0 THEN <<0, 0>> ELSE <<1, 0>>)
  ELSE <<n \div GCD(n, d), d \div GCD(n, d)>>

\* The average bytes per message OutputStats streams as its fourth field and
\* LogStats logs as "Avg. bytes/msg":
\* static_cast<double>(all_conv_stats.total_ipc_bytes) / all_conv_stats.num_jsons
AvgBytesPerMsg(all) == Quotient(all.total_ipc_bytes, all.num_jsons)

\* OutputStats (succinct) or LogStats (verbose) reports the statistics
\* AggrStats returned.
OutputStats ==
  /\ aggPc = "returned"
  /\ aggPc' = "reported"
  /\ avg_bytes_per_msg' = AvgBytesPerMsg(all_conv_stats)
  /\ UNCHANGED <<otherThanStats, conv_stats, aggIdx, all_conv_stats>>

StatsNext ==
  \/ AggrStatsBegin
  \/ AggrStatsAdd
  \/ AggrStatsReturn
  \/ OutputStats

\* The statistics one thread can deliver.
\* The statistics a converter thread can hand over: every IPC message holds
\* at least one JSON and at least one byte, and every converted JSON went
\* into a message.
ThreadStats ==
  {s \in [num_jsons : 0..MaxStat, num_ipc : 0..MaxStat, convert_time : {1},
          thread_time : {1}, total_ipc_bytes : 0..MaxStat] :
     /\ s.num_ipc <= s.num_jsons
     /\ s.num_ipc <= s.total_ipc_bytes
     /\ s.num_ipc = 0 => s.total_ipc_bytes = 0 /\ s.num_jsons = 0}

StatsSpecInit ==
  /\ PipeInit
  /\ TweetInit
  /\ OpaeInit
  /\ SeqInit
  /\ RegInit
  /\ SerInit
  /\ ParserInit
  /\ ContextInit
  /\ LoopInit
  /\ StatsState
  /\ conv_stats \in UNION {[1..n -> ThreadStats] : n \in 0..MaxStatsThreads}

StatsSpec == StatsSpecInit /\ [][StatsNext]_vars

\* ------------------------------------------------------------------------
\* BatteryParser::Parse: one parser, its output memory, the batches returned
\* ------------------------------------------------------------------------
\* The rows the hardware writes for a buffer: one per JSON, the row of the
\* JSON with sequence number s being identified with s.
HardwareRows(range) ==
  [i \in 1..(range.last - range.first + 1) |-> range.first + i - 1]

\* The kernel writes its result at the output addresses set once by Init:
\* the first rows of the output memory are overwritten, the rest stays.
HardwareWrite(mem, rows) ==
  [i \in 1..RawCapacity |-> IF i <= Len(rows) THEN rows[i] ELSE mem[i]]

\* WrapOutput: arrow::Buffer::Wrap makes buffers over the raw output memory
\* without copying; the batch has num_rows rows read from that memory. The
\* rows it had when it was made are kept in created.
WrapOutput(num_rows, mem) ==
  [aliases |-> TRUE, num_rows |-> num_rows, created |-> SubSeq(mem, 1, num_rows)]

\* ParsedBatch(final_batch, in->range())
ParsedBatch(batch, range) ==
  [batch |-> batch, seq_range |-> range]

\* The rows a reader of the batch sees now.
RowsOf(pb) ==
  IF pb.batch.aliases THEN SubSeq(raw_out, 1, pb.batch.num_rows)
  ELSE pb.batch.created

PushBackReplacing(out, batch) == <<batch>>

\* out->push_back(batch)
PushBack(out, batch) == Append(out, batch)

\* Parse is called with the buffers in and the vector out.
ParseBegin ==
  /\ loopPc = "idle"
  /\ loopPc' = "loop"
  /\ loopIdx' = 1
  /\ out_at_call' = parse_out
  /\ UNCHANGED <<otherThanLoop, parse_in, parse_out, raw_out, loopStatus>>

\* for (auto* buf : in) { ParsedBatch batch; BOLSON_ROE(ParseOne(buf, &batch));
\* out->push_back(batch); }: one iteration. ParseOne fails in an MMIO write
\* before the kernel ran, or in WrapOutput after the kernel wrote its rows, or
\* returns the wrapped batch.
ParseIteration ==
  /\ loopPc = "loop"
  /\ loopIdx <= Len(parse_in)
  /\ LET buf == parse_in[loopIdx]
         rows == HardwareRows(buf)
         mem == HardwareWrite(raw_out, rows)
     IN \E outcome \in {"write_failed", "wrap_failed", "ok"} :
          CASE outcome = "write_failed" ->
                 /\ loopStatus' = "FletcherError"
                 /\ loopPc' = "returned"
                 /\ UNCHANGED <<raw_out, parse_out, loopIdx>>
            [] outcome = "wrap_failed" ->
                 /\ raw_out' = mem
                 /\ loopStatus' = "ArrowError"
                 /\ loopPc' = "returned"
                 /\ UNCHANGED <<parse_out, loopIdx>>
            [] outcome = "ok" ->
                 /\ raw_out' = mem
                 /\ parse_out' =
                      PushBack(parse_out, ParsedBatch(WrapOutput(Len(rows), mem), buf))
                 /\ loopIdx' = loopIdx + 1
                 /\ UNCHANGED <<loopStatus, loopPc>>
  /\ UNCHANGED <<otherThanLoop, parse_in, out_at_call>>

\* return Status::OK(); after the last buffer.
ParseReturn ==
  /\ loopPc = "loop"
  /\ loopIdx > Len(parse_in)
  /\ loopPc' = "returned"
  /\ loopStatus' = OK
  /\ UNCHANGED <<otherThanLoop, parse_in, parse_out, out_at_call, raw_out,
                 loopIdx>>

ParseLoopNext ==
  \/ ParseBegin
  \/ ParseIteration
  \/ ParseReturn

\* The ranges of the buffers handed to Parse.
LoopRanges ==
  {r \in [first : (seq_start + 1)..(seq_start + RawCapacity),
          last : (seq_start + 1)..(seq_start + RawCapacity)] :
     r.first <= r.last /\ r.last - r.first + 1 <= RawCapacity}

\* The batch an earlier call of Parse on this parser returned for the first
\* buffer of the stream, and the output memory after that call.
EarlierRange == [first |-> seq_start, last |-> seq_start]
EarlierMemory == HardwareWrite([i \in 1..RawCapacity |-> 0], HardwareRows(EarlierRange))
EarlierBatch == ParsedBatch(WrapOutput(1, EarlierMemory), EarlierRange)

\* Parse is called with 0..MaxBuffers buffers and a vector that is empty or
\* holds the batch of an earlier call.
ParseLoopInit ==
  /\ PipeInit
  /\ TweetInit
  /\ OpaeInit
  /\ SeqInit
  /\ RegInit
  /\ SerInit
  /\ ContextInit
  /\ StatsInit
  /\ ParserState
  /\ backend \in {"fpga", "opae"}
  /\ seq_column = FALSE
  /\ LoopState
  /\ parse_in \in UNION {[1..n -> LoopRanges] : n \in 0..MaxBuffers}
  /\ \/ parse_out = <<>> /\ raw_out = [i \in 1..RawCapacity |-> 0]
     \/ parse_out = <<EarlierBatch>> /\ raw_out = EarlierMemory

ParseLoopSpec == ParseLoopInit /\ [][ParseLoopNext]_vars

\* ------------------------------------------------------------------------
\* Serializer::Serialize, called with any batches and any content of *out
\* ------------------------------------------------------------------------
\* The call: the outcome of Serialize is stored in *out and returned.
SerializeCall ==
  /\ serPc = "idle"
  /\ \E failAt \in 0..Len(ser_in) :
       LET r == Serialize(ser_in, ser_out, failAt)
       IN /\ ser_out' = r.out
          /\ serStatus' = r.status
  /\ ser_out_at_call' = ser_out
  /\ serPc' = "returned"
  /\ UNCHANGED <<otherThanSer, ser_in, mock_out, mockPc, mockStatus>>

\* SerializerMock::Serialize: for every batch of in an entry with an empty
\* message and the batch's seq_range is pushed onto *out; ARROW_ROE returns
\* at the failAt-th batch when bb.Finish fails there.
RECURSIVE SerializerMockLoop(_, _, _, _)
SerializerMockLoop(in, i, out, failAt) ==
  IF i > Len(in) THEN [status |-> OK, out |-> out]
  ELSE IF i = failAt THEN [status |-> "ArrowError", out |-> out]
  ELSE SerializerMockLoop(in, i + 1,
         Append(out, [message |-> 0, seq_range |-> in[i].seq_range]), failAt)

SerializerMockSerialize(in, out, failAt) == SerializerMockLoop(in, 1, out, failAt)

\* The call of the mock with the same batches and the same content of *out.
SerializerMockCall ==
  /\ mockPc = "idle"
  /\ \E failAt \in 0..Len(ser_in) :
       LET r == SerializerMockSerialize(ser_in, mock_out, failAt)
       IN /\ mock_out' = r.out
          /\ mockStatus' = r.status
  /\ mockPc' = "returned"
  /\ UNCHANGED <<otherThanSer, ser_in, ser_out, ser_out_at_call, serPc,
                 serStatus>>

SerNext ==
  \/ SerializeCall
  \/ SerializerMockCall

\* The rows of a resized batch: 1..MaxSerRows rows of sizes 1..MaxRowSize.
SerRows == UNION {[1..n -> 1..MaxRowSize] : n \in 1..MaxSerRows}

\* The resized batches made of the given lists of rows, with consecutive
\* ranges of sequence numbers.
AsResizedBatches(rowLists) ==
  [i \in 1..Len(rowLists) |->
     LET before == SumSeq([j \in 1..(i - 1) |-> Len(rowLists[j])])
     IN [rows |-> rowLists[i],
         seq_range |-> [first |-> seq_start + 1 + before,
                        last |-> seq_start + before + Len(rowLists[i])]]]

\* What an earlier call left in *out: the message of the first JSON.
EarlierSerialized ==
  <<[message |-> SerializeRecordBatch(<<1>>),
     seq_range |-> [first |-> seq_start, last |-> seq_start]]>>

SerSpecInit ==
  /\ PipeInit
  /\ TweetInit
  /\ OpaeInit
  /\ SeqInit
  /\ RegInit
  /\ ParserInit
  /\ ContextInit
  /\ StatsInit
  /\ LoopInit
  /\ SerState
  /\ \E lists \in UNION {[1..n -> SerRows] : n \in 0..MaxSerBatches} :
       ser_in = AsResizedBatches(lists)
  /\ ser_out \in {<<>>, EarlierSerialized}
  /\ mock_out = ser_out

SerSpec == SerSpecInit /\ [][SerNext]_vars

\* ------------------------------------------------------------------------
\* Register offsets of the fpga BatteryParser instances
\* ------------------------------------------------------------------------
base_offsetNarrowMask(idx) == ((idx * 4096) % 524288) \div 4

\* return ((idx * 0x00001000) & 0x000FFFFF) / 4; the mask keeps the low 20
\* bits of the product.
base_offset(idx) == ((idx * 4096) % 1048576) \div 4

custom_regs_offset(idx) ==
  base_offset(idx) + default_regs + range_regs_per_inst + in_addr_regs_per_inst
    + out_addr_regs_per_inst

ctrl_offset(idx) == custom_regs_offset(idx)
status_offset(idx) == custom_regs_offset(idx) + 1
result_rows_offset_lo(idx) == custom_regs_offset(idx) + 2
result_rows_offset_hi(idx) == custom_regs_offset(idx) + 3
input_firstidx_offset(idx) == base_offset(idx) + default_regs
input_lastidx_offset(idx) == input_firstidx_offset(idx) + 1
input_values_lo_offset(idx) == base_offset(idx) + default_regs + range_regs_per_inst
input_values_hi_offset(idx) == input_values_lo_offset(idx) + 1
output_voltage_offsets_lo_offset(idx) ==
  base_offset(idx) + default_regs + range_regs_per_inst + in_addr_regs_per_inst
output_voltage_offsets_hi_offset(idx) == output_voltage_offsets_lo_offset(idx) + 1
output_voltage_values_lo_offset(idx) == output_voltage_offsets_lo_offset(idx) + 2
output_voltage_values_hi_offset(idx) == output_voltage_offsets_lo_offset(idx) + 3

\* Every register offset the parser with index idx reads or writes, in Init
\* and in ParseOne.
RegistersOf(idx) ==
  {ctrl_offset(idx), status_offset(idx), result_rows_offset_lo(idx),
   result_rows_offset_hi(idx), input_firstidx_offset(idx),
   input_lastidx_offset(idx), input_values_lo_offset(idx),
   input_values_hi_offset(idx), output_voltage_offsets_lo_offset(idx),
   output_voltage_offsets_hi_offset(idx), output_voltage_values_lo_offset(idx),
   output_voltage_values_hi_offset(idx)}

\* Make: if (opts.num_parsers > 256) return FletcherError.
RegMake ==
  /\ regPc = "idle"
  /\ regPc' = IF reg_n > 256 THEN "refused" ELSE "made"
  /\ UNCHANGED <<otherThanReg, reg_n, reg_idx, reg_offs>>

\* PrepareParsers: for (size_t i = 0; i < num_parsers_; i++) a parser with
\* index i is made; the registers it uses are those of its index.
RegParser ==
  /\ regPc = "made"
  /\ \E i \in 0..(reg_n - 1) :
       /\ reg_idx' = i
       /\ reg_offs' = RegistersOf(i)
  /\ regPc' = "parser"
  /\ UNCHANGED <<otherThanReg, reg_n>>

\* base_offset applied to any index.
RegProbe ==
  /\ regPc = "idle"
  /\ \E idx \in 0..MaxRegParsers :
       /\ reg_idx' = idx
       /\ reg_offs' = {base_offset(idx)}
  /\ regPc' = "probe"
  /\ UNCHANGED <<otherThanReg, reg_n>>

RegNext ==
  \/ RegMake
  \/ RegParser
  \/ RegProbe

RegSpecInit ==
  /\ PipeInit
  /\ TweetInit
  /\ OpaeInit
  /\ SeqInit
  /\ RegState
  /\ ParserInit
  /\ ContextInit
  /\ StatsInit
  /\ LoopInit
  /\ SerInit
  /\ reg_n \in 0..MaxRegParsers

RegSpec == RegSpecInit /\ [][RegNext]_vars

\* ------------------------------------------------------------------------
\* ParseOne under a fair mutex and hardware that finishes
\* ------------------------------------------------------------------------
\* The status read finds the done bit set.
PollReadsDone(p) == ParseOnePollRead(p) /\ done'[p]

\* Every parser thread keeps running; a thread waiting in lock() gets the
\* mutex if it is free again and again; the hardware sets the done bit of a
\* started parser after finitely many polls.
ParserFairness ==
  \A p \in Parsers :
     /\ WF_vars(ParseOneWriteMMIO(p))
     /\ WF_vars(ParseOnePrepareSeq(p))
     /\ WF_vars(ParseOnePollRead(p))
     /\ SF_vars(PollReadsDone(p))
     /\ WF_vars(ParseOnePollUnlock(p))
     /\ SF_vars(ParseOnePollLock(p))
     /\ WF_vars(ParseOneReadRowsUnlock(p))
     /\ WF_vars(ParseOneWrapAndReturn(p))

ParseLiveSpec == ParseSpecInit /\ [][ParserNext]_vars /\ ParserFairness

\* ------------------------------------------------------------------------
\* ParseOne: the loop that builds the sequence number column
\* ------------------------------------------------------------------------
\* builder.Reserve(in->range().last - in->range().first + 1); s = first.
SeqReserve ==
  /\ slPc = "idle"
  /\ sl_reserved' = U64(U64(sl_range.last - sl_range.first) + 1)
  /\ sl_s' = sl_range.first
  /\ sl_appended' = 0
  /\ slPc' = "loop"
  /\ UNCHANGED <<otherThanSeq, sl_range>>

\* s <= last holds: builder.UnsafeAppend(s); s++. UnsafeAppend does not
\* check the capacity: an append beyond the reserved space writes past it.
SeqAppend ==
  /\ slPc = "loop"
  /\ sl_s <= sl_range.last
  /\ IF sl_appended >= sl_reserved
       THEN /\ slPc' = "overrun"
            /\ UNCHANGED <<sl_s, sl_appended>>
       ELSE /\ sl_appended' = sl_appended + 1
            /\ sl_s' = U64(sl_s + 1)
            /\ slPc' = slPc
  /\ UNCHANGED <<otherThanSeq, sl_range, sl_reserved>>

\* s <= last fails: the loop ends, builder.Finish(&seq).
SeqFinish ==
  /\ slPc = "loop"
  /\ sl_s > sl_range.last
  /\ slPc' = "finished"
  /\ UNCHANGED <<otherThanSeq, sl_range, sl_s, sl_reserved, sl_appended>>

SeqNext ==
  \/ SeqReserve
  \/ SeqAppend
  \/ SeqFinish

\* Every range with first <= last.
SeqSpecInit ==
  /\ PipeInit
  /\ TweetInit
  /\ OpaeInit
  /\ SeqState
  /\ ParserInit
  /\ ContextInit
  /\ StatsInit
  /\ LoopInit
  /\ SerInit
  /\ RegInit
  /\ sl_range \in {r \in [first : 0..MaxSeq, last : 0..MaxSeq] : r.first <= r.last}

SeqSpec == SeqSpecInit /\ [][SeqNext]_vars

\* ------------------------------------------------------------------------
\* OpaeBatteryParser::Parse (one buffer per call)
\* ------------------------------------------------------------------------
\* What the caller's ParsedBuffer may hold before a call.
ParsedBuffers ==
  [batch : {<<>>} \cup {<<n>> : n \in 0..MaxOpaeBytes},
   parsed_bytes : 0..MaxOpaeBytes]

\* Parse(in, out) is called: ParsedBuffer result; PrepareInputBatch, which
\* always returns OK.
OpaeParseCall ==
  /\ opaePc \in {"idle", "returned"}
  /\ \E size \in 0..MaxOpaeBytes : opae_in' = size
  /\ opae_out_at_call' = opae_out
  /\ opae_result' = EmptyParsedBuffer
  /\ opae_num_rows' = 0
  /\ opaeStatus' = OK
  /\ opaePc' = "context"
  /\ UNCHANGED <<otherThanOpae, opae_out>>

\* FLETCHER_ROE of Context::Make, QueueRecordBatch (twice), Enable and
\* WriteMetaData: the first that fails returns OpaeError.
OpaeParseContext ==
  /\ opaePc = "context"
  /\ \E ok \in BOOLEAN :
       IF ok THEN opaePc' = "kernel" /\ opaeStatus' = opaeStatus
       ELSE opaePc' = "returned" /\ opaeStatus' = "OpaeError"
  /\ UNCHANGED <<otherThanOpae, opae_in, opae_out, opae_out_at_call,
                 opae_result, opae_num_rows>>

\* FLETCHER_ROE of Reset, Start, PollUntilDone and GetReturn: the kernel
\* returns the number of rows it parsed, or one of the calls fails.
OpaeParseKernel ==
  /\ opaePc = "kernel"
  /\ \E ok \in BOOLEAN, rows \in 0..opae_in :
       IF ok THEN /\ opaePc' = "copy"
                  /\ opaeStatus' = opaeStatus
                  /\ opae_num_rows' = rows
       ELSE /\ opaePc' = "returned"
            /\ opaeStatus' = "OpaeError"
            /\ opae_num_rows' = opae_num_rows
  /\ UNCHANGED <<otherThanOpae, opae_in, opae_out, opae_out_at_call,
                 opae_result>>

\* BOLSON_ROE(CopyAndWrapOutput(num_rows.full, ..., &result.batch)): the
\* batch goes into the local result; an exception of Arrow is an ArrowError.
OpaeParseCopy ==
  /\ opaePc = "copy"
  /\ \E ok \in BOOLEAN :
       IF ok THEN /\ opaePc' = "wrapped"
                  /\ opaeStatus' = opaeStatus
                  /\ opae_result' = [opae_result EXCEPT !.batch = <<opae_num_rows>>]
       ELSE /\ opaePc' = "returned"
            /\ opaeStatus' = "ArrowError"
            /\ opae_result' = opae_result
  /\ UNCHANGED <<otherThanOpae, opae_in, opae_out, opae_out_at_call,
                 opae_num_rows>>

\* result.parsed_bytes = in->size(); return Status::OK(); the local result
\* goes out of scope and nothing is assigned to *out.
OpaeParseReturn ==
  /\ opaePc = "wrapped"
  /\ opae_result' = [opae_result EXCEPT !.parsed_bytes = opae_in]
  /\ opaeStatus' = OK
  /\ opaePc' = "returned"
  /\ UNCHANGED <<otherThanOpae, opae_in, opae_out, opae_out_at_call,
                 opae_num_rows>>

OpaeNext ==
  \/ OpaeParseCall
  \/ OpaeParseContext
  \/ OpaeParseKernel
  \/ OpaeParseCopy
  \/ OpaeParseReturn

OpaeSpecInit ==
  /\ PipeInit
  /\ TweetInit
  /\ SeqInit
  /\ RegInit
  /\ SerInit
  /\ ParserInit
  /\ ContextInit
  /\ LoopInit
  /\ StatsInit
  /\ OpaeState
  /\ opae_out \in ParsedBuffers

OpaeSpec == OpaeSpecInit /\ [][OpaeNext]_vars

\* ------------------------------------------------------------------------
\* tweetgen StreamServer
\* ------------------------------------------------------------------------
\* The JSON documents GenerateTweets can return, and opts.protocol.eos_marker.
Tweets == {"tweets_a", "tweets_b"}
eos_marker == "eos_marker"

LoopContinuesInclusive(m, n) == m <= n

\* for (size_t m = 0; m < opts.num_messages; m++)
LoopContinues(m, n) == m < n

\* The socket is made and bound; the loop starts with m = 0.
StreamBind ==
  /\ tgPc = "start"
  /\ tg_m' = 0
  /\ tgPc' = "loop"
  /\ UNCHANGED <<otherThanTweet, tg_num_messages, tg_sent>>

\* One iteration: a generated message is written as JSON and sent; m++.
StreamSendMessage ==
  /\ tgPc = "loop"
  /\ LoopContinues(tg_m, tg_num_messages)
  /\ \E json \in Tweets : tg_sent' = Append(tg_sent, json)
  /\ tg_m' = tg_m + 1
  /\ UNCHANGED <<otherThanTweet, tg_num_messages, tgPc>>

\* After the loop: stop << opts.protocol.eos_marker; socket.send(stop).
StreamSendEos ==
  /\ tgPc = "loop"
  /\ ~LoopContinues(tg_m, tg_num_messages)
  /\ tg_sent' = Append(tg_sent, eos_marker)
  /\ tgPc' = "stopping"
  /\ UNCHANGED <<otherThanTweet, tg_num_messages, tg_m>>

\* return 0
StreamReturn ==
  /\ tgPc = "stopping"
  /\ tgPc' = "returned"
  /\ UNCHANGED <<otherThanTweet, tg_num_messages, tg_m, tg_sent>>

TweetNext ==
  \/ StreamBind
  \/ StreamSendMessage
  \/ StreamSendEos
  \/ StreamReturn

TweetSpecInit ==
  /\ PipeInit
  /\ OpaeInit
  /\ SeqInit
  /\ RegInit
  /\ SerInit
  /\ ParserInit
  /\ ContextInit
  /\ LoopInit
  /\ StatsInit
  /\ TweetState
  /\ tg_num_messages \in 0..MaxMessages

TweetSpec == TweetSpecInit /\ [][TweetNext]_vars

\* ------------------------------------------------------------------------
\* Properties
\* ------------------------------------------------------------------------
\* Sequence numbers the client has assigned so far.
ReceivedSeqs == seq_start..(seq_start + received - 1)

\* Number of published messages whose sequence range holds s.
Covers(s) ==
  Cardinality({i \in 1..Len(published) :
                 published[i].seq_range.first <= s /\ s <= published[i].seq_range.last})

\* ProduceFromStream ran the pipeline (it got past the Pulsar set-up).
PipelineRan == hivePc # "none"

\* The threads that can take a step (the guards of their actions).
MainCanStep ==
  \/ mainPc \in {"start", "run_file", "report"}
  \/ mainPc = "run_stream" /\ supPc = "returned"

SupervisorCanStep ==
  \/ supPc \in {"call", "setup", "create", "receive", "close"}
  \/ supPc = "collect" /\ Ready(conv_stats_promise) /\ Ready(pub_stats_promise)
  \/ supPc = "wait" /\ WaitOver(received, publish_count)
  \/ supPc = "join_conv" /\ hivePc = "exited"
  \/ supPc = "join_pub" /\ pubPc = "exited"

WorkerCanStep(w) ==
  \/ wPc[w] = "push"
  \/ wPc[w] = "idle" /\ (raw_json_queue # <<>> \/ shutdown)

HiveCanStep == hivePc = "running" /\ \A w \in Workers : wPc[w] = "exited"

PublisherCanStep == pubPc = "idle" /\ (arrow_ipc_queue # <<>> \/ shutdown)

\* No step of the pipeline can be undone or repeated: every step moves a
\* thread forward or consumes an item. So every run in which each thread that
\* can take a step eventually takes one ends in a state where no thread can
\* take a step: the program has finished there, or it hangs there.
Stuck ==
  /\ ~MainCanStep
  /\ ~SupervisorCanStep
  /\ \A w \in Workers : ~WorkerCanStep(w)
  /\ ~HiveCanStep
  /\ ~PublisherCanStep

\* Stuck states are exactly the states without a successor.
StuckIsNoSuccessor == Stuck <=> ~ENABLED Next

\* main has returned after ProduceFromStream returned.
Finished == mainPc = "exited" /\ supPc = "returned"

\* C1: when ProduceFromStream completes successfully, the sequence ranges of
\* the published messages cover every received sequence number exactly once
\* and cover no other number.
C1_NoLossNoDuplication ==
  (supPc = "returned" /\ result = OK) =>
     /\ \A s \in ReceivedSeqs : Covers(s) = 1
     /\ \A i \in 1..Len(published) :
          /\ published[i].seq_range.first \in ReceivedSeqs
          /\ published[i].seq_range.last \in ReceivedSeqs
          /\ published[i].seq_range.first <= published[i].seq_range.last

\* A successful run that received MaxJsons JSONs in more than one buffer.
C1_Witness ==
  /\ supPc = "returned" /\ result = OK
  /\ received = MaxJsons
  /\ Len(published) >= 2

\* C2: a publisher failure does not deadlock the program: when the publisher
\* has failed and no thread can take a step any more, ProduceFromStream has
\* returned a non-OK result, all threads have ended and main has returned.
C2_PublisherFailureTerminates ==
  (pubStatus # OK /\ Stuck) =>
     /\ Finished
     /\ result # OK
     /\ hivePc = "exited" /\ pubPc = "exited"

\* C3: the exit code is 0 exactly when the status main holds is OK.
C3_ExitCodeReflectsStatus ==
  mainPc = "exited" => ((exit_code = 0) <=> (status = OK))

\* The messages that exist anywhere in the pipeline.
AllMessages ==
  {arrow_ipc_queue[i] : i \in 1..Len(arrow_ipc_queue)}
    \cup {published[i] : i \in 1..Len(published)}
    \cup UNION {{wOut[w][i] : i \in 1..Len(wOut[w])} : w \in Workers}

\* The pieces the resizer makes of a queued buffer.
PiecesOf(buf) == Resize(buf.sizes, buf.range.first).pieces

\* C4: every batch Serialize returns is at most max_ipc_size bytes, and when
\* a piece serializes to more than max_ipc_size Serialize returns an error and
\* emits nothing; so no message in a worker's output, in the IPC queue or
\* published is larger than max_ipc_size.
C4_NoOversizedMessage ==
  /\ \A m \in AllMessages : m.message <= max_ipc_size
  /\ \A i \in 1..Len(raw_json_queue) :
       LET in == PiecesOf(raw_json_queue[i])
           s == Serialize(in, <<>>, 0)
       IN /\ s.status = OK =>
               /\ Len(s.out) = Len(in)
               /\ \A j \in 1..Len(s.out) : s.out[j].message <= max_ipc_size
          /\ (\E j \in 1..Len(in) : SerializeRecordBatch(in[j].rows) > max_ipc_size)
               => (s.status = "GenericError" /\ s.out = <<>>)

\* A worker was stopped by Serialize's size check while another message was
\* published.
C4_Witness ==
  /\ \E w \in Workers : wStatus[w] = "GenericError" /\ wPc[w] = "exited"
  /\ Len(published) >= 1

\* C5: on the error-free path the shutdown flag is set only after the
\* receiver has finished and publish_count equals the number received, never
\* while a received JSON is unpublished; the supervisor then joins the
\* converter thread, then the publisher thread, and only then collects the
\* statistics.
C5_ShutdownAfterAllPublished ==
  /\ (shutdown /\ ~illexErr) =>
        /\ supPc \in {"join_conv", "join_pub", "collect", "returned"}
        /\ publish_count = received
        /\ \A s \in ReceivedSeqs : Covers(s) = 1
        /\ raw_json_queue = <<>> /\ arrow_ipc_queue = <<>>
        /\ \A w \in Workers : wOut[w] = <<>>
  /\ (~illexErr /\ supPc \in {"create", "receive", "close", "wait"}) => ~shutdown
  /\ (PipelineRan /\ ~illexErr /\ supPc \in {"join_pub", "collect", "returned"})
        => hivePc = "exited"
  /\ (PipelineRan /\ ~illexErr /\ supPc \in {"collect", "returned"})
        => pubPc = "exited"

\* The flag was set on the error-free path after JSONs were received, and
\* the supervisor is about to collect the statistics.
C5_Witness ==
  shutdown /\ ~illexErr /\ received >= 2 /\ supPc = "collect"

\* C6: when the converter and the publisher have exited after a shutdown and
\* no stage failed, nothing that was enqueued has been dropped: the queues are
\* empty and every received JSON is published.
C6_GracefulDrain ==
  (/\ shutdown /\ hivePc = "exited" /\ pubPc = "exited"
   /\ pubStatus = OK /\ parse_errors = 0
   /\ \A w \in Workers : wStatus[w] = OK)
    => /\ raw_json_queue = <<>> /\ arrow_ipc_queue = <<>>
       /\ \A s \in ReceivedSeqs : Covers(s) = 1

\* C7: a parse error is not fatal: when a buffer was dropped and nothing
\* else failed, the run does not hang in the supervisor's wait; it ends with
\* an OK status and exit code 0.
C7_ParseErrorRunTerminates ==
  (/\ parse_errors > 0 /\ Stuck
   /\ pubStatus = OK /\ ~illexErr
   /\ \A w \in Workers : wStatus[w] = OK)
    => (Finished /\ status = OK /\ exit_code = 0)

\* C8: once Shutdown has set the flag the run cannot hang before every
\* converter worker, the hive thread and the publisher have exited and
\* ProduceFromStream has returned; the joins of Shutdown never wait for ever;
\* and a worker that exits without an error has pushed everything it made of
\* its last buffer.
C8_ShutdownTerminates ==
  /\ (shutdown /\ Stuck) =>
        /\ \A w \in Workers : wPc[w] = "exited"
        /\ hivePc = "exited" /\ pubPc = "exited"
        /\ supPc = "returned"
  /\ supPc \in {"join_conv", "join_pub"} => ~Stuck
  /\ \A w \in Workers : (wPc[w] = "exited" /\ wStatus[w] = OK) => wOut[w] = <<>>

\* The flag was set while a worker still held serialized batches of its
\* buffer; the run has ended with every thread joined.
C8_Witness ==
  /\ shutdown /\ Stuck /\ supPc = "returned"
  /\ Len(arrow_ipc_queue) + Len(published) >= 1
  /\ illexErr

\* C9: a parser is at an MMIO read or write of ParseOne only while it holds
\* the platform mutex, and at most one parser holds the mutex.
C9_MMIOUnderMutex ==
  /\ Cardinality(platform_mutex) <= 1
  /\ \A p \in Parsers : parserPc[p] \in MMIOPlaces => p \in platform_mutex

\* One parser is inside its MMIO section while another waits for the mutex
\* in its poll loop.
C9_Witness ==
  \E p, q \in Parsers :
    /\ p # q
    /\ parserPc[p] \in MMIOWrites
    /\ parserPc[q] = "poll_lock"

\* C10: when a client call failed, ProduceFromStream has set the shutdown
\* flag; it returns IllexError, and it returns only after the converter
\* thread and the publisher thread have ended.
C10_IllexErrorShutsDown ==
  /\ illexErr => shutdown
  /\ (supPc = "returned" /\ illexErr) => result = "IllexError"
  /\ (supPc = "returned" /\ PipelineRan) =>
        /\ hivePc = "exited" /\ pubPc = "exited"
        /\ \A w \in Workers : wPc[w] = "exited"

\* ReceiveJSONs failed after JSONs were received, and ProduceFromStream has
\* returned.
C10_Witness ==
  supPc = "returned" /\ illexErr /\ received >= 1 /\ result = "IllexError"

\* Every stage of the pipeline ended with an OK status.
AllStagesOK ==
  /\ ~illexErr
  /\ pubStatus = OK
  /\ \A w \in Workers : wStatus[w] = OK

\* C11: the result of ProduceFromStream is OK if and only if every stage
\* finished with an OK status; a non-OK status in a converter worker's
\* statistics makes the run end with a non-OK result.
C11_ResultReflectsStages ==
  /\ (supPc = "returned" /\ PipelineRan) => ((result = OK) <=> AllStagesOK)
  /\ (Stuck /\ \E w \in Workers : wStatus[w] # OK)
        => (supPc = "returned" /\ result # OK)

\* C12: with seq_column enabled, the batch the fpga parser returns for a
\* buffer with range [first, last] has bolson_seq as its first column, has
\* last-first+1 rows, and row i of the column holds first+i.
C12_SeqColumnValues ==
  \A p \in Parsers :
    (outBatch[p].valid /\ PrependsSeqColumn) =>
       LET b == outBatch[p]
           n == b.seq_range.last - b.seq_range.first + 1
       IN /\ b.columns[1] = "bolson_seq"
          /\ b.num_rows = n
          /\ Len(b.seq) = n
          /\ \A i \in 0..(n - 1) : b.seq[i + 1] = b.seq_range.first + i

\* A parser has returned a batch of two rows with the sequence number column.
C12_Witness ==
  \E p \in Parsers :
    /\ outBatch[p].valid /\ PrependsSeqColumn
    /\ outBatch[p].num_rows = 2
    /\ parseStatus[p] = OK

\* The value a batch's schema metadata holds for a key, <<>> if it has none.
MetaValue(b, key) ==
  IF \E e \in b.meta : e[1] = key
    THEN (CHOOSE e \in b.meta : e[1] = key)[2]
    ELSE <<>>

\* C13: every batch a parser returns carries the schema metadata entries
\* bolson_seq_first and bolson_seq_last of its sequence range, with and
\* without seq_column, for every backend.
C13_SeqMetadataAlways ==
  \A p \in Parsers :
    outBatch[p].valid =>
       /\ MetaValue(outBatch[p], "bolson_seq_first") = DecString(outBatch[p].seq_range.first)
       /\ MetaValue(outBatch[p], "bolson_seq_last") = DecString(outBatch[p].seq_range.last)

\* C14: Serialize returns one SerializedBatch per input ResizedBatch, in the
\* same order, each with the seq_range of its input; so the batches a worker
\* holds to emit for one buffer have increasing sequence ranges.
C14_SerializeKeepsOrder ==
  /\ \A i \in 1..Len(raw_json_queue) :
       LET in == PiecesOf(raw_json_queue[i])
           s == Serialize(in, <<>>, 0)
       IN s.status = OK =>
            /\ Len(s.out) = Len(in)
            /\ \A j \in 1..Len(in) : s.out[j].seq_range = in[j].seq_range
  /\ \A w \in Workers : \A j \in 1..(Len(wOut[w]) - 1) :
       wOut[w][j].seq_range.last < wOut[w][j + 1].seq_range.first

\* A worker holds the two serialized batches it made of one buffer.
C14_Witness ==
  \E w \in Workers : wPc[w] = "push" /\ Len(wOut[w]) >= 2

\* The pieces partition the range [first, last] in increasing order, and
\* each piece has as many rows as its range has numbers.
PartitionsRange(pieces, range) ==
  /\ pieces # <<>>
  /\ pieces[1].seq_range.first = range.first
  /\ pieces[Len(pieces)].seq_range.last = range.last
  /\ \A j \in 1..Len(pieces) :
       /\ pieces[j].seq_range.first <= pieces[j].seq_range.last
       /\ Len(pieces[j].rows) = pieces[j].seq_range.last - pieces[j].seq_range.first + 1
  /\ \A j \in 1..(Len(pieces) - 1) :
       pieces[j + 1].seq_range.first = pieces[j].seq_range.last + 1

\* C15: resizing a batch with range [first, last] yields pieces whose ranges
\* are non-empty, disjoint, increasing and cover exactly [first, last], each
\* piece with as many rows as its range; a batch that is split at row k has a
\* piece ending at first+k-1 followed by a piece starting at first+k.
C15_ResizePartitionsRange ==
  \A i \in 1..Len(raw_json_queue) :
    LET buf == raw_json_queue[i]
        n == Len(buf.sizes)
        k == n \div 2
        r == Resize(buf.sizes, buf.range.first)
    IN r.ok =>
         /\ PartitionsRange(r.pieces, buf.range)
         /\ Len(r.pieces) >= 2 =>
              \E j \in 1..(Len(r.pieces) - 1) :
                /\ r.pieces[j].seq_range.last = buf.range.first + k - 1
                /\ r.pieces[j + 1].seq_range.first = buf.range.first + k

\* A buffer of three JSONs that the resizer splits is in the JSON queue.
C15_Witness ==
  \E i \in 1..Len(raw_json_queue) :
    /\ Len(raw_json_queue[i].sizes) = 3
    /\ Resize(raw_json_queue[i].sizes, raw_json_queue[i].range.first).ok
    /\ Len(PiecesOf(raw_json_queue[i])) >= 2

\* C16: the resizer splits until every piece fits or is a single row; it
\* fails exactly when a single row exceeds the ceiling, the worker then stops
\* with OversizedRow and emits nothing of the buffer, and the run ends with a
\* non-OK status and a non-zero exit code.
C16_OversizedRowIsFatal ==
  /\ \A i \in 1..Len(raw_json_queue) :
       LET buf == raw_json_queue[i]
           r == Resize(buf.sizes, buf.range.first)
       IN /\ r.ok => \A j \in 1..Len(r.pieces) :
                        \/ SumSeq(r.pieces[j].rows) <= size_hint
                        \/ Len(r.pieces[j].rows) = 1
          /\ ~r.ok <=> \E j \in 1..Len(buf.sizes) :
                         /\ buf.sizes[j] > size_hint
                         /\ SerializeRecordBatch(<<buf.sizes[j]>>) > max_ipc_size
  /\ \A w \in Workers :
       wStatus[w] = "OversizedRow" => (wPc[w] = "exited" /\ wOut[w] = <<>>)
  /\ (Stuck /\ \E w \in Workers : wStatus[w] = "OversizedRow")
        => (Finished /\ status # OK /\ exit_code # 0)

C18_QueuesBounded ==
  /\ Len(raw_json_queue) <= JsonQueueCapacity
  /\ Len(arrow_ipc_queue) <= IpcQueueCapacity
  /\ \A w \in Workers :
       (wPc[w] = "push" /\ Len(arrow_ipc_queue) >= IpcQueueCapacity)
         => ~ENABLED WorkerPush(w)

\* C19: the number of buffers a parser context reports is at least the
\* number of threads it reports plus one.
C19_BuffersExceedThreads ==
  {"threads", "buffers"} \subseteq ctxDone => buffer_count >= thread_count + 1

\* C20: with an empty input stream the run does not hang: the wait ends at
\* once because received = publish_count = 0, the threads are shut down and
\* joined, nothing is published, and the result is OK with exit code 0.
C20_EmptyStreamTerminates ==
  /\ (supPc = "wait" /\ received = 0) => SupervisorCanStep
  /\ (Stuck /\ PipelineRan /\ received = 0 /\ ~illexErr) =>
        /\ Finished
        /\ shutdown /\ hivePc = "exited" /\ pubPc = "exited"
        /\ published = <<>> /\ publish_count = 0
        /\ result = OK /\ status = OK /\ exit_code = 0

\* The run with an empty stream has ended.
C20_Witness ==
  /\ Finished /\ PipelineRan /\ received = 0 /\ ~illexErr
  /\ shutdown /\ result = OK /\ exit_code = 0

\* C21: with the zmq protocol ProduceFromStream returns the not-implemented
\* error at once: it never sets up Pulsar, never spawns a thread and never
\* receives or queues anything.
C21_ZmqNotImplemented ==
  (protocol = "zmq" /\ supPc \notin {"idle", "call"}) =>
     /\ supPc = "returned"
     /\ result = "GenericError"
     /\ hivePc = "none" /\ pubPc = "none"
     /\ \A w \in Workers : wPc[w] = "none"
     /\ raw_json_queue = <<>> /\ arrow_ipc_queue = <<>>
     /\ received = 0 /\ ~shutdown

\* The stream sub-command ran with the zmq protocol and main has reported
\* the error.
C21_Witness ==
  /\ protocol = "zmq" /\ sub = "STREAM"
  /\ supPc = "returned" /\ mainPc = "exited"
  /\ status = "GenericError"

\* The sum of one field over a list of statistics.
RECURSIVE SumField(_, _)
SumField(list, field) ==
  IF list = <<>> THEN 0 ELSE Head(list)[field] + SumField(Tail(list), field)

\* C22: the statistics AggrStats returns are the field-wise sum over the
\* threads: num_jsons, num_ipc and total_ipc_bytes each equal the sum of that
\* field over the list, and the aggregate of an empty list is all zeros.
C22_AggrStatsIsSum ==
  aggPc \in {"returned", "reported"} =>
     /\ all_conv_stats.num_jsons = SumField(conv_stats, "num_jsons")
     /\ all_conv_stats.num_ipc = SumField(conv_stats, "num_ipc")
     /\ all_conv_stats.total_ipc_bytes = SumField(conv_stats, "total_ipc_bytes")
     /\ conv_stats = <<>> => all_conv_stats = ZeroStats

\* The statistics of two threads with non-zero counters were aggregated.
C22_Witness ==
  /\ aggPc = "returned"
  /\ Len(conv_stats) = 2
  /\ all_conv_stats.num_ipc = 2
  /\ all_conv_stats.num_jsons = 3

\* C23: whenever ParseOne has returned, with OK or with an error of one of
\* its MMIO writes, the calling parser does not hold the platform mutex.
C23_ReturnReleasesMutex ==
  \A p \in Parsers : parserPc[p] = "idle" => p \notin platform_mutex

\* C24: a batch returned by a parser is immutable: after any later ParseOne
\* call on the same parser, every batch returned before still has the rows it
\* had when it was made.
C24_ReturnedBatchImmutable ==
  \A i \in 1..Len(parse_out) : RowsOf(parse_out[i]) = parse_out[i].batch.created

\* C28: Parse appends one ParsedBatch per input buffer, in input order, each
\* with the range of its buffer, after the previous content of out; when
\* ParseOne fails for the k-th buffer Parse returns that error at once, the
\* later buffers are not parsed and out holds the previous content and the
\* k-1 batches of the earlier buffers.
C28_ParseAppendsPerBuffer ==
  loopPc \in {"loop", "returned"} =>
     LET prior == Len(out_at_call)
         parsed == loopIdx - 1
     IN /\ parsed <= Len(parse_in)
        /\ Len(parse_out) = prior + parsed
        /\ SubSeq(parse_out, 1, prior) = out_at_call
        /\ \A i \in 1..parsed : parse_out[prior + i].seq_range = parse_in[i]
        /\ (loopPc = "returned" /\ loopStatus = OK) => parsed = Len(parse_in)
        /\ (loopPc = "returned" /\ loopStatus # OK) => parsed < Len(parse_in)

\* Parse was called with two buffers and a vector holding one batch; the
\* second ParseOne failed and Parse returned with two batches in out.
C28_Witness ==
  /\ loopPc = "returned"
  /\ loopStatus = "FletcherError"
  /\ Len(parse_in) = 2
  /\ loopIdx = 2
  /\ Len(out_at_call) = 1
  /\ Len(parse_out) = 2

\* C25: file and stream are distinct modes: with the FILE sub-command main
\* runs ProduceFromFile only, ProduceFromStream is never called and the status
\* main reports is one ProduceFromFile returned; with STREAM only
\* ProduceFromStream runs. (The sub-command is not run when the arguments
\* were refused with a CLIError.)
C25_FileAndStreamDistinct ==
  /\ sub = "FILE" =>
        /\ mainPc # "run_stream"
        /\ supPc = "idle"
        /\ mainPc \in {"report", "exited"} => status \in {OK, "IOError", "CLIError"}
  /\ sub = "STREAM" => mainPc # "run_file"

\* C26: each statistics promise is fulfilled exactly once, by its thread
\* before the thread exits, and the supervisor reads each future only after
\* Shutdown joined both threads: a read never waits and no future is read
\* twice.
C26_PromisesSingleShot ==
  /\ conv_stats_promise = (IF hivePc = "exited" THEN 1 ELSE 0)
  /\ pub_stats_promise = (IF pubPc = "exited" THEN 1 ELSE 0)
  /\ conv_stats_reads <= 1 /\ pub_stats_reads <= 1
  /\ supPc = "collect" =>
        /\ hivePc = "exited" /\ pubPc = "exited"
        /\ Ready(conv_stats_promise) /\ Ready(pub_stats_promise)
  /\ (conv_stats_reads > 0 \/ pub_stats_reads > 0) =>
        /\ hivePc = "exited" /\ pubPc = "exited"
        /\ conv_stats_reads = 1 /\ pub_stats_reads = 1

\* A run published its JSONs, both threads gave their statistics and the
\* supervisor read both futures.
C26_Witness ==
  /\ supPc = "returned"
  /\ conv_stats_reads = 1 /\ pub_stats_reads = 1
  /\ conv_stats_promise = 1 /\ pub_stats_promise = 1
  /\ published # <<>>

\* C27: Serialize is all-or-nothing: when the serialization of a batch fails
\* or a serialized batch exceeds max_ipc_size it returns an error and leaves
\* *out as it was before the call; on success *out is replaced by the list of
\* all serialized batches, one per input batch in order.
C27_SerializeAllOrNothing ==
  serPc = "returned" =>
     /\ serStatus # OK => ser_out = ser_out_at_call
     /\ serStatus = OK =>
           /\ Len(ser_out) = Len(ser_in)
           /\ \A i \in 1..Len(ser_in) :
                 /\ ser_out[i].seq_range = ser_in[i].seq_range
                 /\ ser_out[i].message = SerializeRecordBatch(ser_in[i].rows)
                 /\ ser_out[i].message <= max_ipc_size
     /\ (\E i \in 1..Len(ser_in) :
           SerializeRecordBatch(ser_in[i].rows) > max_ipc_size) => serStatus # OK

\* Serialize was called with two batches that fit and a non-empty *out, and
\* returned OK with the two messages.
C27_Witness ==
  /\ serPc = "returned"
  /\ serStatus = OK
  /\ Len(ser_in) = 2
  /\ ser_out_at_call # <<>>
  /\ Len(ser_out) = 2

\* C29: for an opae context made with num_parsers = n, Init(buffers) returns
\* the error about the number of buffers and parsers if and only if the number
\* of buffers differs from n; with exactly n buffers it goes on and, when it
\* returns OK, ends with n parsers.
C29_OpaeInitRefusesIffUnequal ==
  (backend = "opae" /\ "init" \in ctxDone) =>
     /\ init_status = "OpaeError" <=> init_buffers # num_parsers_
     /\ init_status = OK => parsers_size = num_parsers_

\* C30: when BatteryParser::Init fails for a parser, PrepareParsers returns
\* that error and the fpga BatteryParserContext::Make fails: Make never returns
\* OK with a parser whose output addresses were not written.
C30_InitFailurePropagates ==
  (backend = "fpga" /\ "make" \in ctxDone /\ make_status = OK) =>
     addr_written = 1..parsers_size

\* C31: parser instances never share hardware registers: Make refuses more
\* than 256 parsers, every parser made has an index in 0..255, base_offset
\* maps index i of 0..255 to register index i * 1024 and is injective there,
\* so the registers of two different parsers are disjoint; an index of 256 or
\* more wraps onto the registers of a lower index.
C31_RegistersDisjoint ==
  /\ regPc = "refused" => reg_n > 256
  /\ regPc \in {"made", "parser"} => reg_n <= 256
  /\ regPc = "parser" =>
        /\ reg_idx \in 0..255
        /\ base_offset(reg_idx) = reg_idx * 1024
        /\ \A j \in 0..255 : j # reg_idx => RegistersOf(j) \cap reg_offs = {}
  /\ (regPc = "probe" /\ reg_idx <= 255) => reg_offs = {reg_idx * 1024}
  /\ (regPc = "probe" /\ reg_idx >= 256) => reg_offs = {base_offset(reg_idx - 256)}

\* The parser with the largest index, 255, of a context of 256 parsers.
C31_Witness ==
  /\ regPc = "parser"
  /\ reg_n = 256
  /\ reg_idx = 255
  /\ ctrl_offset(255) \in reg_offs

\* The order of the hardware steps of one ParseOne call.
HardwareStepOrder ==
  <<<<"ctrl", "reset">>, <<"ctrl", "0">>, <<"input_lastidx", "size">>,
    <<"input_values_lo", "addr">>, <<"input_values_hi", "addr">>,
    <<"ctrl", "start">>, <<"ctrl", "0">>, <<"status", "read">>,
    <<"rows", "read">>>>

\* C32: in every ParseOne call the control register is pulsed with reset,
\* then the input last index and the input address are written, then the
\* control register is pulsed with start, the status register is read at
\* least once after the start pulse, and the row count used for the result is
\* read only after the done bit was observed.
C32_HardwareStepOrder ==
  \A p \in Parsers :
     /\ Len(mmio_log[p]) <= Len(HardwareStepOrder)
     /\ mmio_log[p] = SubSeq(HardwareStepOrder, 1, Len(mmio_log[p]))
     /\ parserPc[p] = "read_rows" => (done[p] /\ Len(mmio_log[p]) = 8)
     /\ parserPc[p] = "wrap" => (done[p] /\ mmio_log[p] = HardwareStepOrder)

\* A parser has read the row count at the end of a call in which it polled
\* the status register.
C32_Witness ==
  \E p \in Parsers :
     /\ parserPc[p] = "wrap"
     /\ mmio_log[p] = HardwareStepOrder
     /\ numRows[p] > 0

\* C33: with the parsers sharing one fair platform mutex and hardware that
\* sets the done bit of every started parser, every ParseOne call returns.
C33_EveryParseOneReturns ==
  \A p \in Parsers : (parserPc[p] # "idle") ~> (parserPc[p] = "idle")

\* C34: for every range with first <= last, last = 2^64-1 included, the loop
\* that builds the sequence number column ends after appending exactly
\* last-first+1 values, and the reserved capacity last-first+1 does not wrap
\* to a smaller number.
C34_SeqLoopTerminates ==
  /\ slPc # "idle" => sl_reserved = sl_range.last - sl_range.first + 1
  /\ slPc # "overrun"
  /\ slPc = "loop" => sl_appended <= sl_range.last - sl_range.first + 1
  /\ slPc = "finished" => sl_appended = sl_range.last - sl_range.first + 1

\* C35: every SerializedBatch has range.first <= range.last, so RecordSizeOf
\* (last - first + 1 in unsigned arithmetic) does not wrap around and is the
\* number of sequence numbers in the range, which is at least 1.
C35_RecordSizeOfCountsRange ==
  \A b \in AllMessages :
     /\ b.seq_range.first <= b.seq_range.last
     /\ RecordSizeOf(b) = Cardinality(b.seq_range.first..b.seq_range.last)
     /\ RecordSizeOf(b) >= 1

\* A message that covers two JSONs was published and counted.
C35_Witness ==
  /\ published # <<>>
  /\ RecordSizeOf(published[1]) = 2
  /\ publish_count >= 2

\* C36: the average bytes per message reported in the succinct and the
\* verbose output is the total number of IPC bytes divided by the number of
\* IPC messages generated.
C36_AvgBytesPerMessage ==
  aggPc = "reported" =>
     avg_bytes_per_msg = Quotient(all_conv_stats.total_ipc_bytes, all_conv_stats.num_ipc)

\* C37: when OpaeBatteryParser::Parse has returned OK, *out holds the batch
\* parsed from the input and its parsed_bytes is the size of the input
\* buffer.
C37_ParseFillsOut ==
  (opaePc = "returned" /\ opaeStatus = OK) =>
     /\ opae_out.batch = <<opae_num_rows>>
     /\ opae_out.parsed_bytes = opae_in

\* C38: for every list of batches and every prior content of the output
\* list, after a successful call Serializer and SerializerMock both leave the
\* output list with one entry per input batch, in input order, each with the
\* seq_range of its input batch.
C38_MockKeepsSeqRanges ==
  /\ (serPc = "returned" /\ serStatus = OK) =>
        /\ Len(ser_out) = Len(ser_in)
        /\ \A i \in 1..Len(ser_in) : ser_out[i].seq_range = ser_in[i].seq_range
  /\ (mockPc = "returned" /\ mockStatus = OK) =>
        /\ Len(mock_out) = Len(ser_in)
        /\ \A i \in 1..Len(ser_in) : mock_out[i].seq_range = ser_in[i].seq_range

\* C39: the tweetgen stream server sends num_messages data messages and
\* then one end-of-stream marker: the marker is never followed or preceded by
\* another marker, it is sent only after all num_messages data messages, and
\* when the server has returned it is the last of num_messages + 1 messages,
\* also for num_messages = 0.
C39_StreamEndsWithOneMarker ==
  /\ \A i \in 1..Len(tg_sent) :
        tg_sent[i] = eos_marker <=> i = tg_num_messages + 1
  /\ Len(tg_sent) <= tg_num_messages + 1
  /\ tgPc \in {"stopping", "returned"} => Len(tg_sent) = tg_num_messages + 1

\* The server sent two data messages and the marker, and returned.
C39_Witness ==
  /\ tgPc = "returned"
  /\ tg_num_messages = 2
  /\ Len(tg_sent) = 3
  /\ tg_sent[3] = eos_marker

====
